---- MODULE Spec2Model ----
(***************************************************************************)
(* Connect 4: the board (connect4/board.py) and the minimax bot with       *)
(* alpha-beta pruning and a transposition table (connect4/bot.py).         *)
(*                                                                         *)
(* Rows and columns are numbered from 0 as in the source; row 0 is the top *)
(* row and row rows-1 the bottom row.                                      *)
(***************************************************************************)
EXTENDS Integers, Sequences, FiniteSets, TLC

VARIABLES
    grid,                 \* Board.grid of the caller's board
    player_number,        \* Bot.player_number
    opponent_number,      \* Bot.opponent_number
    search_depth,         \* Bot.search_depth
    transposition_table,  \* Bot.transposition_table
    ret,                  \* the last call made and what it returned
    drops,                \* how many pieces the caller has dropped so far
    copied,               \* Board.grid of the board the last copy() returned
    current_player,       \* Game.current_player
    game_over,            \* Game.game_over
    winner                \* Game.winner

vars == <<grid, player_number, opponent_number, search_depth,
          transposition_table, ret, drops, copied, current_player, game_over,
          winner>>

(***************************************************************************)
(* Board                                                                   *)
(***************************************************************************)
EMPTY == 0
PLAYER_1 == 1
PLAYER_2 == 2

rows == 6
cols == 7

\* Python's None where the source returns it in place of a row or a column.
None == -1

\* The column get_move returns when the board has no valid move.
NoMove == -1

\* float('-inf') and float('inf'): beyond every score the bot can compute.
NegInf == -1000000
PosInf == 1000000

max(a, b) == IF a >= b THEN a ELSE b
min(a, b) == IF a <= b THEN a ELSE b
abs(a) == IF a >= 0 THEN a ELSE -a

Players == {PLAYER_1, PLAYER_2}

EmptyGrid == [row \in 0..(rows - 1) |-> [col \in 0..(cols - 1) |-> EMPTY]]

\* lowest_empty with the rows scanned from the top: range(self.rows) in place
\* of range(self.rows - 1, -1, -1).
RECURSIVE first_empty_from_top(_, _, _)
first_empty_from_top(g, col, row) ==
    IF row < 0 THEN None
    ELSE IF first_empty_from_top(g, col, row - 1) # None
    THEN first_empty_from_top(g, col, row - 1)
    ELSE IF g[row][col] = EMPTY THEN row
    ELSE None

\* The row a piece dropped in col lands in: the largest row index whose cell
\* is empty, None when the column is full.
RECURSIVE lowest_empty(_, _, _)
lowest_empty(g, col, row) ==
    IF row < 0 THEN None
    ELSE IF g[row][col] = EMPTY THEN row
    ELSE lowest_empty(g, col, row - 1)

\* drop_piece with the scan started one row too high:
\* range(self.rows - 2, -1, -1).
drop_piece_skip_bottom(g, col, player) ==
    IF ~(0 <= col /\ col < cols)
    THEN [success |-> FALSE, row |-> None, grid |-> g]
    ELSE LET row == lowest_empty(g, col, rows - 2)
         IN IF row = None
            THEN [success |-> FALSE, row |-> None, grid |-> g]
            ELSE [success |-> TRUE, row |-> row,
                  grid |-> [g EXCEPT ![row][col] = player]]

\* drop_piece that leaves the piece one row above the lowest empty cell when
\* there is room for that.
drop_piece_one_higher(g, col, player) ==
    IF ~(0 <= col /\ col < cols)
    THEN [success |-> FALSE, row |-> None, grid |-> g]
    ELSE LET row == lowest_empty(g, col, rows - 1)
         IN IF row = None
            THEN [success |-> FALSE, row |-> None, grid |-> g]
            ELSE [success |-> TRUE, row |-> max(row - 1, 0),
                  grid |-> [g EXCEPT ![max(row - 1, 0)][col] = player]]

\* drop_piece without the column-full refusal: on a full column the piece
\* replaces the one on top.
drop_piece_on_top(g, col, player) ==
    IF ~(0 <= col /\ col < cols)
    THEN [success |-> FALSE, row |-> None, grid |-> g]
    ELSE LET row == lowest_empty(g, col, rows - 1)
         IN IF row = None
            THEN [success |-> TRUE, row |-> 0,
                  grid |-> [g EXCEPT ![0][col] = player]]
            ELSE [success |-> TRUE, row |-> row,
                  grid |-> [g EXCEPT ![row][col] = player]]

drop_piece(g, col, player) ==
    IF ~(0 <= col /\ col < cols)
    THEN [success |-> FALSE, row |-> None, grid |-> g]
    ELSE LET row == lowest_empty(g, col, rows - 1)
         IN IF row = None
            THEN [success |-> FALSE, row |-> None, grid |-> g]
            ELSE [success |-> TRUE, row |-> row,
                  grid |-> [g EXCEPT ![row][col] = player]]

\* is_valid_move without the test of the top cell: every column of the board
\* is valid, full or not.
is_valid_move_in_range(g, col) == 0 <= col /\ col < cols

is_valid_move(g, col) == 0 <= col /\ col < cols /\ g[0][col] = EMPTY

\* range(cols) walked from the last column to the first.
columns_descending == [i \in 1..cols |-> cols - i]

AllColumns == [i \in 1..cols |-> i - 1]

get_valid_moves(g) == SelectSeq(AllColumns, LAMBDA col : is_valid_move(g, col))

\* check_win without its last pair of loops, the up-right diagonals.
check_win_no_up_right(g, player) ==
    \/ \E row \in 0..(rows - 1), col \in 0..(cols - 4) :
          \A i \in 0..3 : g[row][col + i] = player
    \/ \E row \in 0..(rows - 4), col \in 0..(cols - 1) :
          \A i \in 0..3 : g[row + i][col] = player
    \/ \E row \in 0..(rows - 4), col \in 0..(cols - 4) :
          \A i \in 0..3 : g[row + i][col + i] = player

check_win(g, player) ==
    \/ \E row \in 0..(rows - 1), col \in 0..(cols - 4) :
          \A i \in 0..3 : g[row][col + i] = player
    \/ \E row \in 0..(rows - 4), col \in 0..(cols - 1) :
          \A i \in 0..3 : g[row + i][col] = player
    \/ \E row \in 0..(rows - 4), col \in 0..(cols - 4) :
          \A i \in 0..3 : g[row + i][col + i] = player
    \/ \E row \in 3..(rows - 1), col \in 0..(cols - 4) :
          \A i \in 0..3 : g[row - i][col + i] = player

\* is_full with any() in place of all().
is_full_any_column(g) == \E col \in 0..(cols - 1) : g[0][col] # EMPTY

is_full(g) == \A col \in 0..(cols - 1) : g[0][col] # EMPTY

\* Board.copy builds fresh row lists; a board value of the model is already
\* independent of the value it was taken from. The lists are built when the
\* copy is made (@@ << >> computes every cell once), not when they are read.
copy(g) == [row \in 0..(rows - 1) |-> ([col \in 0..(cols - 1) |-> g[row][col]] @@ << >>)] @@ << >>

\* A copy whose grid is the original's list of rows: list(self.grid) in place
\* of a slice of every row.
shared_rows_all == 0..(rows - 1)

\* The rows of a copy's grid that are the very list objects of the original's
\* grid: none, since copy() slices every row (row[:]).
shared_rows == {}

\* No board: the value of a name that holds no Board yet.
NoBoard == << >>

\* The grid of a board `other` after a drop has left `written` on a board
\* that other was copied from, or that is a copy of other: a write to a
\* shared row list shows in both.
write_through(other, written) ==
    IF other = NoBoard THEN NoBoard
    ELSE [row \in 0..(rows - 1) |->
             IF row \in shared_rows THEN written[row] ELSE other[row]] @@ << >>

(***************************************************************************)
(* Bot: window catalog and evaluator                                       *)
(***************************************************************************)
other_player(p) == IF p = PLAYER_2 THEN PLAYER_1 ELSE PLAYER_2

position_weights ==
    <<  <<3, 4, 5, 7, 5, 4, 3>>,
        <<4, 6, 8, 10, 8, 6, 4>>,
        <<5, 7, 9, 11, 9, 7, 5>>,
        <<5, 7, 9, 11, 9, 7, 5>>,
        <<6, 8, 10, 12, 10, 8, 6>>,
        <<7, 9, 12, 15, 12, 9, 7>>  >>

\* The weights read three columns to the right of the cell: column 0 gets
\* the weights the table gives the center column.
weight_shifted(row, col) == position_weights[row + 1][((col + 3) % cols) + 1]

\* position_weights[row][col] of the source (a 0-based list of lists).
weight(row, col) == position_weights[row + 1][col + 1]

\* for row in range(r0, r1): for col in range(c0, c1): append((row, col))
anchors(r0, r1, c0, c1) ==
    [k \in 1..((r1 - r0) * (c1 - c0)) |->
        <<r0 + ((k - 1) \div (c1 - c0)), c0 + ((k - 1) % (c1 - c0))>>]

\* The horizontal windows with range(cols - 4) for the columns: the windows
\* anchored in column 3 are missing.
horizontal_windows_short == anchors(0, 6, 0, 7 - 4)
horizontal_windows == anchors(0, 6, 0, 7 - 3)
vertical_windows == anchors(0, 6 - 3, 0, 7)
diagonal_down_windows == anchors(0, 6 - 3, 0, 7 - 3)
\* The up-right windows with range(cols - 4) for the columns: the windows
\* anchored in column 3 are missing.
diagonal_up_windows_short == anchors(3, 6, 0, 7 - 4)
diagonal_up_windows == anchors(3, 6, 0, 7 - 3)

get_window_values(g, row, col, direction) ==
    IF direction = "horizontal"
    THEN <<g[row][col], g[row][col + 1], g[row][col + 2], g[row][col + 3]>>
    ELSE IF direction = "vertical"
    THEN <<g[row][col], g[row + 1][col], g[row + 2][col], g[row + 3][col]>>
    ELSE IF direction = "diagonal_down"
    THEN <<g[row][col], g[row + 1][col + 1], g[row + 2][col + 2],
           g[row + 3][col + 3]>>
    ELSE IF direction = "diagonal_up"
    THEN <<g[row][col], g[row - 1][col + 1], g[row - 2][col + 2],
           g[row - 3][col + 3]>>
    ELSE << >>

\* window.count(v) for a window of 4 cells.
count(window, v) ==
    (IF window[1] = v THEN 1 ELSE 0) + (IF window[2] = v THEN 1 ELSE 0)
    + (IF window[3] = v THEN 1 ELSE 0) + (IF window[4] = v THEN 1 ELSE 0)

\* evaluate_window with a branch for four opponent pieces, scored -100.
evaluate_window_four_opponent(window, player, opponent) ==
    LET bot_pieces == count(window, player)
        opponent_pieces == count(window, opponent)
        empty_pieces == count(window, EMPTY)
    IN IF bot_pieces = 4 THEN 100
       ELSE IF opponent_pieces = 4 THEN -100
       ELSE IF bot_pieces = 3 /\ empty_pieces = 1 THEN 10
       ELSE IF bot_pieces = 2 /\ empty_pieces = 2 THEN 3
       ELSE IF opponent_pieces = 3 /\ empty_pieces = 1 THEN -50
       ELSE IF opponent_pieces = 2 /\ empty_pieces = 2 THEN -5
       ELSE 0

evaluate_window(window, player, opponent) ==
    LET bot_pieces == count(window, player)
        opponent_pieces == count(window, opponent)
        empty_pieces == count(window, EMPTY)
    IN IF bot_pieces = 4 THEN 100
       ELSE IF bot_pieces = 3 /\ empty_pieces = 1 THEN 10
       ELSE IF bot_pieces = 2 /\ empty_pieces = 2 THEN 3
       ELSE IF opponent_pieces = 3 /\ empty_pieces = 1 THEN -50
       ELSE IF opponent_pieces = 2 /\ empty_pieces = 2 THEN -5
       ELSE 0

\* The sum of the window scores of one direction's anchors windows[lo..hi],
\* added up by halves.
RECURSIVE windows_score(_, _, _, _, _, _, _)
windows_score(g, windows, direction, lo, hi, player, opponent) ==
    IF lo > hi THEN 0
    ELSE IF lo = hi
    THEN evaluate_window(
             get_window_values(g, windows[lo][1], windows[lo][2], direction),
             player, opponent)
    ELSE LET mid == (lo + hi) \div 2
         IN windows_score(g, windows, direction, lo, mid, player, opponent)
            + windows_score(g, windows, direction, mid + 1, hi, player, opponent)

\* What the positional scoring adds for one cell.
cell_score(g, row, col, player, opponent) ==
    IF g[row][col] = player THEN weight(row, col)
    ELSE IF g[row][col] = opponent THEN -weight(row, col)
    ELSE 0

\* The positional score of the cells lo..hi in row-major order, added up by
\* halves.
RECURSIVE positional_score(_, _, _, _, _)
positional_score(g, lo, hi, player, opponent) ==
    IF lo > hi THEN 0
    ELSE IF lo = hi THEN cell_score(g, lo \div cols, lo % cols, player, opponent)
    ELSE LET mid == (lo + hi) \div 2
         IN positional_score(g, lo, mid, player, opponent)
            + positional_score(g, mid + 1, hi, player, opponent)

\* evaluate_position with the center column counted for both players: 3 for
\* each piece of the bot, -3 for each piece of the opponent.
evaluate_position_center_both(g, player, opponent) ==
    LET center_col == cols \div 2
        center_count ==
            Cardinality({row \in 0..(rows - 1) : g[row][center_col] = player})
        opponent_count ==
            Cardinality({row \in 0..(rows - 1) : g[row][center_col] = opponent})
    IN positional_score(g, 0, rows * cols - 1, player, opponent)
       + windows_score(g, horizontal_windows, "horizontal",
                       1, Len(horizontal_windows), player, opponent)
       + windows_score(g, vertical_windows, "vertical",
                       1, Len(vertical_windows), player, opponent)
       + windows_score(g, diagonal_down_windows, "diagonal_down",
                       1, Len(diagonal_down_windows), player, opponent)
       + windows_score(g, diagonal_up_windows, "diagonal_up",
                       1, Len(diagonal_up_windows), player, opponent)
       + center_count * 3 - opponent_count * 3

evaluate_position(g, player, opponent) ==
    LET center_col == cols \div 2
        center_count ==
            Cardinality({row \in 0..(rows - 1) : g[row][center_col] = player})
    IN positional_score(g, 0, rows * cols - 1, player, opponent)
       + windows_score(g, horizontal_windows, "horizontal",
                       1, Len(horizontal_windows), player, opponent)
       + windows_score(g, vertical_windows, "vertical",
                       1, Len(vertical_windows), player, opponent)
       + windows_score(g, diagonal_down_windows, "diagonal_down",
                       1, Len(diagonal_down_windows), player, opponent)
       + windows_score(g, diagonal_up_windows, "diagonal_up",
                       1, Len(diagonal_up_windows), player, opponent)
       + center_count * 3

(***************************************************************************)
(* Bot: transposition table, minimax and get_move                          *)
(***************************************************************************)
\* A hash of the rows below the top row only.
get_board_hash_below_top(g) ==
    [i \in 2..rows |-> [j \in 1..cols |-> g[i - 1][j - 1]]]

\* tuple(tuple(row) for row in board.grid)
get_board_hash(g) == [i \in 1..rows |-> [j \in 1..cols |-> g[i - 1][j - 1]]]

\* A table is the dict of the bot, or a stub whose lookups always miss and
\* whose stores do nothing (the table disabled).  The record that carries it
\* through the search also carries the record of the search itself: steps,
\* the number of _minimax calls made so far, calls, what each call was
\* made from and with, order, the calls in the order they were made,
\* failed, the number of simulated drops that returned success False,
\* writers, the is_maximizing of the node that stored each entry, and hits,
\* what each lookup that found an entry found and was made with.
EmptyTable ==
    [noop |-> FALSE, map |-> << >>, steps |-> 0, calls |-> {}, order |-> << >>,
     failed |-> 0, writers |-> << >>, hits |-> {}]
NoOpTable ==
    [noop |-> TRUE, map |-> << >>, steps |-> 0, calls |-> {}, order |-> << >>,
     failed |-> 0, writers |-> << >>, hits |-> {}]

table_has(table, key) == ~table.noop /\ key \in DOMAIN table.map

table_set(table, key, entry) ==
    IF table.noop THEN table
    ELSE [table EXCEPT !.map = (key :> entry) @@ table.map]

\* sorted(keys, key=lambda c: key[c], reverse=reverse): a stable sort, so
\* elements with equal keys keep the order they have in keys.
RECURSIVE insert_before_worse(_, _, _, _)
insert_before_worse(seq, x, key, reverse) ==
    IF seq = << >> THEN <<x>>
    ELSE IF (IF reverse THEN key[Head(seq)] > key[x]
                        ELSE key[Head(seq)] < key[x])
         THEN <<Head(seq)>> \o insert_before_worse(Tail(seq), x, key, reverse)
         ELSE <<x>> \o seq

RECURSIVE sorted(_, _, _)
sorted(keys, key, reverse) ==
    IF keys = << >> THEN << >>
    ELSE insert_before_worse(sorted(Tail(keys), key, reverse),
                             Head(keys), key, reverse)

\* The columns of valid_moves whose simulated drop succeeds, in order: the
\* keys of the move_scores dict.
scored_moves(g, valid_moves, player) ==
    SelectSeq(valid_moves, LAMBDA col : drop_piece(copy(g), col, player).success)

\* move_scores[col]: the evaluation of the board after mover drops in col.
move_scores(g, keys, mover, player, opponent) ==
    [col \in {keys[i] : i \in DOMAIN keys} |->
        evaluate_position(drop_piece(copy(g), col, mover).grid, player, opponent)] @@ << >>

\* ordered_moves with reverse left out of the call of sorted: the moves come
\* in ascending score at every node.
ordered_moves_ascending(g, valid_moves, mover, player, opponent, reverse) ==
    sorted(scored_moves(g, valid_moves, mover),
           move_scores(g, scored_moves(g, valid_moves, mover), mover,
                       player, opponent),
           FALSE)

\* sorted(move_scores.keys(), key=lambda c: move_scores[c], reverse=reverse)
\* for the move_scores dict built from valid_moves.
ordered_moves(g, valid_moves, mover, player, opponent, reverse) ==
    sorted(scored_moves(g, valid_moves, mover),
           move_scores(g, scored_moves(g, valid_moves, mover), mover,
                       player, opponent),
           reverse)

\* The number of the columns in moves whose simulated drop by player on a
\* copy of g returns success False: the iterations in which a loop over
\* moves finds `if success` false.
failed_drops(g, moves, player) ==
    Len(moves) - Len(scored_moves(g, moves, player))

\* The columns a loop over moves has tried when it returns in the iteration
\* for col (moves is ascending, as get_valid_moves gives it).
tried_until(moves, col) == SelectSeq(moves, LAMBDA c : c <= col)

\* The table record after n more simulated drops have failed.
with_failed(table, n) == [table EXCEPT !.failed = @ + n]

\* The value_type a node stores: eval is its max_eval or min_eval, alpha and
\* beta are the locals as the loop left them.
value_type(eval, alpha, beta) ==
    IF eval <= alpha THEN "upper"
    ELSE IF eval >= beta THEN "lower"
    ELSE "exact"

\* table_lookup without the test of the stored depth: an entry of any depth
\* is used.
table_lookup_any_depth(table, board_hash, depth, alpha, beta) ==
    IF ~table_has(table, board_hash)
    THEN [found |-> FALSE, cutoff |-> FALSE, value |-> 0,
          alpha |-> alpha, beta |-> beta]
    ELSE IF table.map[board_hash].type = "exact"
    THEN [found |-> TRUE, cutoff |-> TRUE, value |-> table.map[board_hash].value,
          alpha |-> alpha, beta |-> beta]
    ELSE IF table.map[board_hash].type = "lower"
            /\ table.map[board_hash].value > alpha
    THEN [found |-> TRUE, cutoff |-> table.map[board_hash].value >= beta,
          value |-> table.map[board_hash].value,
          alpha |-> table.map[board_hash].value, beta |-> beta]
    ELSE IF table.map[board_hash].type = "upper"
            /\ table.map[board_hash].value < beta
    THEN [found |-> TRUE, cutoff |-> alpha >= table.map[board_hash].value,
          value |-> table.map[board_hash].value,
          alpha |-> alpha, beta |-> table.map[board_hash].value]
    ELSE [found |-> TRUE, cutoff |-> alpha >= beta,
          value |-> table.map[board_hash].value,
          alpha |-> alpha, beta |-> beta]

\* The table lookup of a node: the local alpha and beta after it, and
\* whether the node returns the stored value at once.
table_lookup(table, board_hash, depth, alpha, beta) ==
    IF ~table_has(table, board_hash)
    THEN [found |-> FALSE, cutoff |-> FALSE, value |-> 0,
          alpha |-> alpha, beta |-> beta]
    ELSE IF ~(table.map[board_hash].depth >= depth)
    THEN [found |-> TRUE, cutoff |-> FALSE, value |-> table.map[board_hash].value,
          alpha |-> alpha, beta |-> beta]
    ELSE IF table.map[board_hash].type = "exact"
    THEN [found |-> TRUE, cutoff |-> TRUE, value |-> table.map[board_hash].value,
          alpha |-> alpha, beta |-> beta]
    ELSE IF table.map[board_hash].type = "lower"
            /\ table.map[board_hash].value > alpha
    THEN [found |-> TRUE, cutoff |-> table.map[board_hash].value >= beta,
          value |-> table.map[board_hash].value,
          alpha |-> table.map[board_hash].value, beta |-> beta]
    ELSE IF table.map[board_hash].type = "upper"
            /\ table.map[board_hash].value < beta
    THEN [found |-> TRUE, cutoff |-> alpha >= table.map[board_hash].value,
          value |-> table.map[board_hash].value,
          alpha |-> alpha, beta |-> table.map[board_hash].value]
    ELSE [found |-> TRUE, cutoff |-> alpha >= beta,
          value |-> table.map[board_hash].value,
          alpha |-> alpha, beta |-> beta]

\* child_depth without the decrement: a call is given the depth of its
\* caller.
child_depth_same(depth) == depth

\* The depth _minimax is called with by a node of depth `depth`, and by
\* get_move with search_depth for depth: depth - 1.
child_depth(depth) == depth - 1

\* The table record once a node of board g and depth caller_depth (get_move
\* itself, with depth search_depth) has made a _minimax call with depth
\* callee_depth: one more step, and the call on record with whether g was
\* a board at which _minimax stops.  The call is made for the drop in col,
\* in iteration nth of the caller's loop over sorted_moves, the caller
\* moving for the bot (is_maximizing; get_move does) or for the opponent.
called(table, g, player, opponent, caller_depth, callee_depth, is_maximizing, col, nth) ==
    [table EXCEPT
        !.steps = @ + 1,
        !.calls = @ \cup {[caller |-> caller_depth, depth |-> callee_depth,
                           caller_stops |-> \/ check_win(g, player)
                                            \/ check_win(g, opponent)
                                            \/ is_full(g)
                                            \/ caller_depth = 0]},
        !.order = Append(@, [board |-> g, caller |-> caller_depth,
                             is_maximizing |-> is_maximizing,
                             col |-> col, nth |-> nth])]

RECURSIVE minimax(_, _, _, _, _, _, _, _)
RECURSIVE search_node(_, _, _, _, _, _, _, _)
RECURSIVE maximizing_loop(_, _, _, _, _, _, _, _, _, _)
RECURSIVE maximizing_next(_, _, _, _, _, _, _, _, _, _)
RECURSIVE minimizing_loop(_, _, _, _, _, _, _, _, _, _)
RECURSIVE minimizing_next(_, _, _, _, _, _, _, _, _, _)

\* The for loop of a maximizing node from sorted_moves[i] on; returns the
\* locals max_eval, alpha and beta and the table as the loop leaves them.
maximizing_loop(player, opponent, table, g, depth, sorted_moves, i, alpha, beta, max_eval) ==
    IF i > Len(sorted_moves)
    THEN [eval |-> max_eval, alpha |-> alpha, beta |-> beta, table |-> table]
    ELSE IF ~drop_piece(copy(g), sorted_moves[i], player).success
    THEN maximizing_loop(player, opponent, with_failed(table, 1), g, depth,
                         sorted_moves, i + 1, alpha, beta, max_eval)
    ELSE maximizing_next(player, opponent, g, depth, sorted_moves, i,
                         alpha, beta, max_eval,
                         minimax(player, opponent,
                                 called(table, g, player, opponent, depth,
                                        child_depth(depth), TRUE,
                                        sorted_moves[i], i),
                                 drop_piece(copy(g), sorted_moves[i], player).grid,
                                 child_depth(depth), alpha, beta, FALSE))

\* The rest of the loop body once the recursive call has returned r.
maximizing_next(player, opponent, g, depth, sorted_moves, i, alpha, beta, max_eval, r) ==
    IF beta <= max(alpha, r.value)
    THEN [eval |-> max(max_eval, r.value), alpha |-> max(alpha, r.value),
          beta |-> beta, table |-> r.table]
    ELSE maximizing_loop(player, opponent, r.table, g, depth, sorted_moves,
                         i + 1, max(alpha, r.value), beta,
                         max(max_eval, r.value))

\* The for loop of a minimizing node from sorted_moves[i] on.
minimizing_loop(player, opponent, table, g, depth, sorted_moves, i, alpha, beta, min_eval) ==
    IF i > Len(sorted_moves)
    THEN [eval |-> min_eval, alpha |-> alpha, beta |-> beta, table |-> table]
    ELSE IF ~drop_piece(copy(g), sorted_moves[i], opponent).success
    THEN minimizing_loop(player, opponent, with_failed(table, 1), g, depth,
                         sorted_moves, i + 1, alpha, beta, min_eval)
    ELSE minimizing_next(player, opponent, g, depth, sorted_moves, i,
                         alpha, beta, min_eval,
                         minimax(player, opponent,
                                 called(table, g, player, opponent, depth,
                                        child_depth(depth), FALSE,
                                        sorted_moves[i], i),
                                 drop_piece(copy(g), sorted_moves[i], opponent).grid,
                                 child_depth(depth), alpha, beta, TRUE))

minimizing_next(player, opponent, g, depth, sorted_moves, i, alpha, beta, min_eval, r) ==
    IF min(beta, r.value) <= alpha
    THEN [eval |-> min(min_eval, r.value), alpha |-> alpha,
          beta |-> min(beta, r.value), table |-> r.table]
    ELSE minimizing_loop(player, opponent, r.table, g, depth, sorted_moves,
                         i + 1, alpha, min(beta, r.value),
                         min(min_eval, r.value))

\* The table record once a node of depth `depth` and flag is_maximizing has
\* looked board_hash up: a lookup that finds an entry is on record with the
\* entry's depth and the flag of the node that stored it (None for an entry
\* no node of this record stored).
looked_up(table, board_hash, depth, is_maximizing) ==
    IF ~table_has(table, board_hash) THEN table
    ELSE [table EXCEPT
             !.hits = @ \cup {[stored_depth |-> table.map[board_hash].depth,
                               depth |-> depth,
                               stored_by |-> IF board_hash \in DOMAIN table.writers
                                             THEN table.writers[board_hash]
                                             ELSE None,
                               is_maximizing |-> is_maximizing]}]

\* What a node of flag is_maximizing returns, r, with the node on record as
\* the one that stored the entry of board_hash.
written_by(r, board_hash, is_maximizing) ==
    IF r.table.noop THEN r
    ELSE [r EXCEPT !.table.writers = (board_hash :> is_maximizing) @@ @]

\* What a node returns after its loop, and the table with its entry stored.
node_result(board_hash, depth, loop) ==
    [value |-> loop.eval,
     table |-> table_set(loop.table, board_hash,
                         [depth |-> depth, value |-> loop.eval,
                          type |-> value_type(loop.eval, loop.alpha, loop.beta)])]

\* _minimax from the table lookup on; look is what the lookup gave.
search_node(player, opponent, table, g, depth, is_maximizing, board_hash, look) ==
    IF look.cutoff THEN [value |-> look.value, table |-> table]
    ELSE IF is_maximizing
    THEN written_by(
             node_result(board_hash, depth,
                 maximizing_loop(player, opponent,
                     with_failed(table,
                                 failed_drops(g, get_valid_moves(g), player)),
                     g, depth,
                     ordered_moves(g, get_valid_moves(g), player, player,
                                   opponent, TRUE),
                     1, look.alpha, look.beta, NegInf)),
             board_hash, TRUE)
    ELSE written_by(
             node_result(board_hash, depth,
                 minimizing_loop(player, opponent,
                     with_failed(table,
                                 failed_drops(g, get_valid_moves(g), opponent)),
                     g, depth,
                     ordered_moves(g, get_valid_moves(g), opponent, player,
                                   opponent, FALSE),
                     1, look.alpha, look.beta, PosInf)),
             board_hash, FALSE)

\* _minimax with the first two terminal checks exchanged: the opponent's
\* four in a row is looked for before the bot's.
minimax_opponent_first(player, opponent, table, g, depth, alpha, beta, is_maximizing) ==
    IF check_win(g, opponent) THEN [value |-> -1000 - depth, table |-> table]
    ELSE IF check_win(g, player) THEN [value |-> 1000 + depth, table |-> table]
    ELSE IF is_full(g) \/ depth = 0
    THEN [value |-> evaluate_position(g, player, opponent), table |-> table]
    ELSE search_node(player, opponent, table, g, depth, is_maximizing,
                     get_board_hash(g),
                     table_lookup(table, get_board_hash(g), depth, alpha, beta))

minimax(player, opponent, table, g, depth, alpha, beta, is_maximizing) ==
    IF check_win(g, player) THEN [value |-> 1000 + depth, table |-> table]
    ELSE IF check_win(g, opponent) THEN [value |-> -1000 - depth, table |-> table]
    ELSE IF is_full(g) \/ depth = 0
    THEN [value |-> evaluate_position(g, player, opponent), table |-> table]
    ELSE search_node(player, opponent,
                     looked_up(table, get_board_hash(g), depth, is_maximizing),
                     g, depth, is_maximizing, get_board_hash(g),
                     table_lookup(table, get_board_hash(g), depth, alpha, beta))

\* winning_moves with the columns tried from the highest index down.
winning_moves_descending(g, valid_moves, player) ==
    LET reversed == [i \in 1..Len(valid_moves) |->
                        valid_moves[Len(valid_moves) + 1 - i]]
    IN SelectSeq(reversed, LAMBDA col :
           /\ drop_piece(copy(g), col, player).success
           /\ check_win(drop_piece(copy(g), col, player).grid, player))

\* The valid_moves where a drop by player makes player win, in order.
winning_moves(g, valid_moves, player) ==
    SelectSeq(valid_moves, LAMBDA col :
        /\ drop_piece(copy(g), col, player).success
        /\ check_win(drop_piece(copy(g), col, player).grid, player))

RECURSIVE root_loop(_, _, _, _, _, _, _, _, _, _, _)
RECURSIVE root_next(_, _, _, _, _, _, _, _, _, _, _)

\* The root loop of get_move from sorted_moves[i] on.
root_loop(player, opponent, depth, table, g, sorted_moves, i, alpha, beta, best_score, best_moves) ==
    IF i > Len(sorted_moves)
    THEN [best_score |-> best_score, best_moves |-> best_moves, table |-> table]
    ELSE IF ~drop_piece(copy(g), sorted_moves[i], player).success
    THEN root_loop(player, opponent, depth, with_failed(table, 1), g,
                   sorted_moves, i + 1, alpha, beta, best_score, best_moves)
    ELSE root_next(player, opponent, depth, g, sorted_moves, i,
                   alpha, beta, best_score, best_moves,
                   minimax(player, opponent,
                           called(table, g, player, opponent, depth,
                                  child_depth(depth), TRUE,
                                  sorted_moves[i], i),
                           drop_piece(copy(g), sorted_moves[i], player).grid,
                           child_depth(depth), alpha, beta, FALSE))

\* The rest of the root loop body once the recursive call has returned r.
root_next(player, opponent, depth, g, sorted_moves, i, alpha, beta, best_score, best_moves, r) ==
    IF r.value > best_score
    THEN root_loop(player, opponent, depth, r.table, g, sorted_moves, i + 1,
                   max(alpha, r.value), beta, r.value, <<sorted_moves[i]>>)
    ELSE IF r.value = best_score
    THEN root_loop(player, opponent, depth, r.table, g, sorted_moves, i + 1,
                   max(alpha, best_score), beta, best_score,
                   Append(best_moves, sorted_moves[i]))
    ELSE root_loop(player, opponent, depth, r.table, g, sorted_moves, i + 1,
                   max(alpha, best_score), beta, best_score, best_moves)

center_distance == [col \in 0..(cols - 1) |-> abs(col - cols \div 2)]

\* What get_move returns from one of its early return statements; path
\* tells which one.
early_return(path, col, table) ==
    [move |-> col, path |-> path, best_score |-> NegInf,
     best_moves |-> << >>, sorted_moves |-> << >>, table |-> table]

\* search_return that answers a tie with the center column itself, whether
\* or not it is one of best_moves.
search_return_center(sorted_moves, loop) ==
    [move |-> IF Len(loop.best_moves) > 1
              THEN cols \div 2
              ELSE loop.best_moves[1],
     path |-> "search", best_score |-> loop.best_score,
     best_moves |-> loop.best_moves, sorted_moves |-> sorted_moves,
     table |-> loop.table]

\* search_return without the tie-break sort: the first of best_moves.
search_return_first(sorted_moves, loop) ==
    [move |-> loop.best_moves[1],
     path |-> "search", best_score |-> loop.best_score,
     best_moves |-> loop.best_moves, sorted_moves |-> sorted_moves,
     table |-> loop.table]

\* The end of get_move: the tie-break among best_moves and the return.
search_return(sorted_moves, loop) ==
    [move |-> IF Len(loop.best_moves) > 1
              THEN sorted(loop.best_moves, center_distance, FALSE)[1]
              ELSE loop.best_moves[1],
     path |-> "search", best_score |-> loop.best_score,
     best_moves |-> loop.best_moves, sorted_moves |-> sorted_moves,
     table |-> loop.table]

\* The root search of get_move over sorted_moves.
root_search(player, opponent, depth, table0, g, sorted_moves) ==
    search_return(sorted_moves,
                  root_loop(player, opponent, depth, table0, g, sorted_moves,
                            1, NegInf, PosInf, NegInf, << >>))

\* search_from with the block check made before the win check.
search_from_block_first(player, opponent, depth, table0, g) ==
    IF get_valid_moves(g) = << >> THEN early_return("none", NoMove, table0)
    ELSE IF winning_moves(g, get_valid_moves(g), opponent) # << >>
    THEN early_return("block",
                      winning_moves(g, get_valid_moves(g), opponent)[1], table0)
    ELSE IF winning_moves(g, get_valid_moves(g), player) # << >>
    THEN early_return("win", winning_moves(g, get_valid_moves(g), player)[1],
                      table0)
    ELSE root_search(player, opponent, depth, table0, g,
                     ordered_moves(g, get_valid_moves(g), player, player,
                                   opponent, TRUE))

\* search_from that answers a board without valid moves with column 0 in
\* place of the sentinel.
search_from_column_0(player, opponent, depth, table0, g) ==
    IF get_valid_moves(g) = << >> THEN early_return("none", 0, table0)
    ELSE IF winning_moves(g, get_valid_moves(g), player) # << >>
    THEN early_return("win", winning_moves(g, get_valid_moves(g), player)[1],
                      table0)
    ELSE IF winning_moves(g, get_valid_moves(g), opponent) # << >>
    THEN early_return("block",
                      winning_moves(g, get_valid_moves(g), opponent)[1], table0)
    ELSE root_search(player, opponent, depth, table0, g,
                     ordered_moves(g, get_valid_moves(g), player, player,
                                   opponent, TRUE))

\* get_move after the table has been set to table0 (the empty dict in the
\* source).
search_from(player, opponent, depth, table0, g) ==
    IF get_valid_moves(g) = << >> THEN early_return("none", NoMove, table0)
    ELSE IF winning_moves(g, get_valid_moves(g), player) # << >>
    THEN early_return("win", winning_moves(g, get_valid_moves(g), player)[1],
             with_failed(table0,
                 failed_drops(g,
                     tried_until(get_valid_moves(g),
                         winning_moves(g, get_valid_moves(g), player)[1]),
                     player)))
    ELSE IF winning_moves(g, get_valid_moves(g), opponent) # << >>
    THEN early_return("block",
             winning_moves(g, get_valid_moves(g), opponent)[1],
             with_failed(table0,
                 failed_drops(g, get_valid_moves(g), player)
                 + failed_drops(g,
                       tried_until(get_valid_moves(g),
                           winning_moves(g, get_valid_moves(g), opponent)[1]),
                       opponent)))
    ELSE root_search(player, opponent, depth,
                     with_failed(table0,
                         failed_drops(g, get_valid_moves(g), player)
                         + failed_drops(g, get_valid_moves(g), opponent)
                         + failed_drops(g, get_valid_moves(g), player)),
                     g,
                     ordered_moves(g, get_valid_moves(g), player, player,
                                   opponent, TRUE))

\* get_move without the reset of the table: the search starts from what the
\* earlier calls left in it.
get_move_keep_table(player, opponent, depth, table, g) ==
    search_from(player, opponent, depth, table, g)

\* get_move with the reset of the table moved behind the early returns: only
\* a call that reaches the search empties the table.
get_move_reset_late(player, opponent, depth, table, g) ==
    IF \/ get_valid_moves(g) = << >>
       \/ winning_moves(g, get_valid_moves(g), player) # << >>
       \/ winning_moves(g, get_valid_moves(g), opponent) # << >>
    THEN search_from(player, opponent, depth, table, g)
    ELSE search_from(player, opponent, depth, EmptyTable, g)

\* Bot.get_move on a bot whose table holds `table` when the call starts: the
\* first statement replaces the table by an empty dict.
get_move(player, opponent, depth, table, g) ==
    search_from(player, opponent, depth, EmptyTable, g)


\* new_board = board with no copy taken: the drop is made on the caller's
\* board itself.
simulate_in_place(board, col, player) ==
    [new_board |-> drop_piece(board, col, player).grid,
     success |-> drop_piece(board, col, player).success,
     board |-> drop_piece(board, col, player).grid]

\* new_board = board.copy(); new_board.drop_piece(col, player): the copy
\* after the drop, whether the drop succeeded, and the caller's board after
\* it.
simulate(board, col, player) ==
    [new_board |-> drop_piece(copy(board), col, player).grid,
     success |-> drop_piece(copy(board), col, player).success,
     board |-> write_through(board, drop_piece(copy(board), col, player).grid)]

\* The caller's board after one of get_move's loops has simulated the drops
\* of player in moves[i], moves[i+1], ...; the win check and the block check
\* return at the first drop that wins (returns_on_win), the two loops of the
\* search try every move.
RECURSIVE board_after_loop(_, _, _, _, _)
board_after_loop(board, moves, i, player, returns_on_win) ==
    IF i > Len(moves) THEN [board |-> board, returned |-> FALSE]
    ELSE IF /\ simulate(board, moves[i], player).success
            /\ returns_on_win
            /\ check_win(simulate(board, moves[i], player).new_board, player)
    THEN [board |-> simulate(board, moves[i], player).board, returned |-> TRUE]
    ELSE board_after_loop(simulate(board, moves[i], player).board, moves,
                          i + 1, player, returns_on_win)

\* The caller's board after the two loops of the search: the one that scores
\* the moves and the root loop over sorted_moves.
board_after_search(board, g, player, opponent) ==
    board_after_loop(
        board_after_loop(board, get_valid_moves(g), 1, player, FALSE).board,
        ordered_moves(g, get_valid_moves(g), player, player, opponent, TRUE),
        1, player, FALSE).board

\* The caller's board after the block check (block is what its loop gave)
\* and what follows it.
board_after_block(block, g, player, opponent) ==
    IF block.returned THEN block.board
    ELSE board_after_search(block.board, g, player, opponent)

\* The caller's board after the win check (win is what its loop gave) and
\* what follows it.
board_after_win(win, g, player, opponent) ==
    IF win.returned THEN win.board
    ELSE board_after_block(
             board_after_loop(win.board, get_valid_moves(g), 1, opponent, TRUE),
             g, player, opponent)

\* The caller's board g as get_move leaves it.
caller_board(g, player, opponent) ==
    board_after_win(board_after_loop(g, get_valid_moves(g), 1, player, TRUE),
                    g, player, opponent)

(***************************************************************************)
(* Game                                                                    *)
(***************************************************************************)
\* None in the second place of the pair make_move returns.
NoMessage == "None"

\* f"Player {player} wins!"
wins_message(player) ==
    IF player = PLAYER_1 THEN "Player 1 wins!" ELSE "Player 2 wins!"

\* What make_move returns and leaves in the game when the drop it made was
\* accepted and left grid d_grid, with the draw tested before the win.
after_drop_draw_first(d_grid, player) ==
    IF is_full(d_grid)
    THEN [success |-> TRUE, message |-> "Game ended in a draw.",
          grid |-> d_grid, current_player |-> player, game_over |-> TRUE,
          winner |-> None]
    ELSE IF check_win(d_grid, player)
    THEN [success |-> TRUE, message |-> wins_message(player), grid |-> d_grid,
          current_player |-> player, game_over |-> TRUE, winner |-> player]
    ELSE [success |-> TRUE, message |-> NoMessage, grid |-> d_grid,
          current_player |-> other_player(player), game_over |-> FALSE,
          winner |-> None]

\* after_drop without the switch of players.
after_drop_no_switch(d_grid, player) ==
    IF check_win(d_grid, player)
    THEN [success |-> TRUE, message |-> wins_message(player), grid |-> d_grid,
          current_player |-> player, game_over |-> TRUE, winner |-> player]
    ELSE IF is_full(d_grid)
    THEN [success |-> TRUE, message |-> "Game ended in a draw.",
          grid |-> d_grid, current_player |-> player, game_over |-> TRUE,
          winner |-> None]
    ELSE [success |-> TRUE, message |-> NoMessage, grid |-> d_grid,
          current_player |-> player, game_over |-> FALSE, winner |-> None]

\* after_drop that ends a drawn game like a won one: winner is set to the
\* mover.
after_drop_draw_has_winner(d_grid, player) ==
    IF check_win(d_grid, player)
    THEN [success |-> TRUE, message |-> wins_message(player), grid |-> d_grid,
          current_player |-> player, game_over |-> TRUE, winner |-> player]
    ELSE IF is_full(d_grid)
    THEN [success |-> TRUE, message |-> "Game ended in a draw.",
          grid |-> d_grid, current_player |-> player, game_over |-> TRUE,
          winner |-> player]
    ELSE [success |-> TRUE, message |-> NoMessage, grid |-> d_grid,
          current_player |-> other_player(player), game_over |-> FALSE,
          winner |-> None]

\* after_drop with the win check made for the player who is waiting, not for
\* the one who moved.
after_drop_checks_waiting(d_grid, player) ==
    IF check_win(d_grid, other_player(player))
    THEN [success |-> TRUE, message |-> wins_message(player), grid |-> d_grid,
          current_player |-> player, game_over |-> TRUE, winner |-> player]
    ELSE IF is_full(d_grid)
    THEN [success |-> TRUE, message |-> "Game ended in a draw.",
          grid |-> d_grid, current_player |-> player, game_over |-> TRUE,
          winner |-> None]
    ELSE [success |-> TRUE, message |-> NoMessage, grid |-> d_grid,
          current_player |-> other_player(player), game_over |-> FALSE,
          winner |-> None]

\* after_drop without the draw check: a move that fills the board without a
\* win hands the turn to the other player.
after_drop_no_draw(d_grid, player) ==
    IF check_win(d_grid, player)
    THEN [success |-> TRUE, message |-> wins_message(player), grid |-> d_grid,
          current_player |-> player, game_over |-> TRUE, winner |-> player]
    ELSE [success |-> TRUE, message |-> NoMessage, grid |-> d_grid,
          current_player |-> other_player(player), game_over |-> FALSE,
          winner |-> None]

\* What make_move returns and leaves in the game when the drop it made was
\* accepted and left grid d_grid: the win check, the draw check, the switch
\* of players.
after_drop(d_grid, player) ==
    IF check_win(d_grid, player)
    THEN [success |-> TRUE, message |-> wins_message(player), grid |-> d_grid,
          current_player |-> player, game_over |-> TRUE, winner |-> player]
    ELSE IF is_full(d_grid)
    THEN [success |-> TRUE, message |-> "Game ended in a draw.",
          grid |-> d_grid, current_player |-> player, game_over |-> TRUE,
          winner |-> None]
    ELSE [success |-> TRUE, message |-> NoMessage, grid |-> d_grid,
          current_player |-> other_player(player), game_over |-> FALSE,
          winner |-> None]

\* make_move without the test of game_over.
make_move_when_over(g, player, over, win, col) ==
    IF ~drop_piece(g, col, player).success
    THEN [success |-> FALSE, message |-> "Invalid move.", grid |-> g,
          current_player |-> player, game_over |-> over, winner |-> win]
    ELSE after_drop(drop_piece(g, col, player).grid, player)

\* Game.make_move(col) on a game with board g, current_player player,
\* game_over over and winner win: what it returns and what it leaves.
make_move(g, player, over, win, col) ==
    IF over
    THEN [success |-> FALSE, message |-> "Game is already over.", grid |-> g,
          current_player |-> player, game_over |-> over, winner |-> win]
    ELSE IF ~drop_piece(g, col, player).success
    THEN [success |-> FALSE, message |-> "Invalid move.", grid |-> g,
          current_player |-> player, game_over |-> over, winner |-> win]
    ELSE after_drop(drop_piece(g, col, player).grid, player)

\* Game(): the game after construction or reset.
new_game ==
    [grid |-> EmptyGrid, current_player |-> PLAYER_1, game_over |-> FALSE,
     winner |-> None]

\* The game after make_move has been called with each column of moves in
\* turn, for as long as the game is not over.
RECURSIVE play(_, _)
play(game, moves) ==
    IF game.game_over \/ moves = << >> THEN game
    ELSE play([grid |-> make_move(game.grid, game.current_player, game.game_over, game.winner, Head(moves)).grid,
               current_player |-> make_move(game.grid, game.current_player, game.game_over, game.winner, Head(moves)).current_player,
               game_over |-> make_move(game.grid, game.current_player, game.game_over, game.winner, Head(moves)).game_over,
               winner |-> make_move(game.grid, game.current_player, game.game_over, game.winner, Head(moves)).winner],
              Tail(moves))

(***************************************************************************)
(* Positions                                                               *)
(***************************************************************************)
\* The board after the columns of moves have been played in turn from the
\* empty board, PLAYER_1 first.
RECURSIVE replay(_, _, _)
replay(g, moves, player) ==
    IF moves = << >> THEN g
    ELSE LET d == drop_piece(g, Head(moves), player)
         IN IF d.success
            THEN replay(d.grid, Tail(moves), other_player(player))
            ELSE g

\* Positions of a game, each given by the columns played from the empty
\* board, PLAYER_1 first; no player has four in a row in any of them.
Positions ==
    << <<3, 4, 4, 6, 1, 4, 3, 2, 4, 3, 6, 5, 6, 2, 1, 5, 2, 4, 3, 3, 3, 2, 1,
         6, 4, 1, 5, 0, 0, 5, 2, 1, 6, 1, 2, 0, 6>>,
       <<3, 2, 3, 1, 6, 6, 0, 5, 0, 0, 6, 1, 1, 6, 0, 1, 0, 6, 1, 5, 6, 2, 5,
         0, 2, 3, 5, 5, 1, 5, 3, 3>>,
       <<2, 4, 3, 1, 5, 5, 2, 6, 3, 3, 3, 2, 2, 4, 1, 4, 5, 3, 1, 5, 5, 0, 3,
         0, 5, 1, 1, 1, 4, 2, 2, 6, 0, 0, 4, 4>>,
       <<2, 3, 6, 0, 1, 1, 6, 4, 0, 2, 3, 2, 4, 3, 3, 4, 0, 3, 5, 6, 1, 5, 5,
         2, 2, 1, 3, 1, 6, 2, 5, 4, 6, 0, 6, 4, 4, 1, 5, 0, 0>>,
       <<1, 0, 0, 5, 1, 4, 5, 4, 4, 5, 3, 0, 4, 0, 2, 0, 3, 6, 6, 1, 0, 5, 6,
         4, 1, 1, 6, 2, 3, 2, 4, 2, 2, 5>>,
       <<2, 4, 3, 1, 5, 5, 2, 6, 3, 3, 3, 2, 2, 4, 1, 4, 5, 3, 1, 5, 5, 0, 3,
         0, 5, 1, 1, 1, 4, 2, 2, 6, 0, 0, 4, 4, 6, 0>> >>

PositionGrids == [n \in DOMAIN Positions |-> replay(EmptyGrid, Positions[n], PLAYER_1)]

\* Games played to their winning move, PLAYER_1 first: the last piece
\* completes an up-right diagonal of PLAYER_1 from the bottom of column 0, or
\* a row of PLAYER_1 in the last four columns, and no other line is on the
\* board.
WonPositions ==
    << <<0, 1, 1, 2, 3, 2, 2, 3, 3, 6, 3>>,
       <<3, 3, 4, 4, 5, 5, 6>> >>

\* Games of TerminalUI.play_game: the columns the player entered (the odd
\* places) and the columns Bot(PLAYER_2, 4).get_move answered (the even
\* places), to the end of the game.
LoopGames ==
    << <<3, 2, 3, 3, 1, 3, 3, 2, 2, 4, 2, 2, 1, 1, 2, 1, 3, 4, 4, 4, 1, 1, 4,
         4, 0, 5, 0, 5, 0, 0, 5, 6, 6, 0, 0, 5, 5, 5, 6, 6>>,
       <<6, 3, 0, 3, 3, 3, 1, 3, 5, 3, 1, 1, 0, 0, 1, 1, 0, 1, 6, 6, 2, 2, 5,
         5, 5, 6, 5, 5, 2, 2, 0, 2, 2, 4, 6, 4>>,
       <<3, 2, 6, 3, 3, 3, 4, 5, 2, 1, 2, 2, 3, 6, 2, 2, 3, 4, 5, 5, 5, 5, 1,
         4, 4, 1, 1, 1, 4, 6, 0, 6, 4, 6>>,
       <<3, 2, 6, 3, 2, 3, 3, 4, 2, 2, 4, 4, 3, 6, 6, 6, 6, 3, 4, 4, 0, 4, 6,
         5, 0, 5, 0, 0, 1, 1, 1, 5, 2, 5>> >>

\* Boards on which the drops went on after a line was complete: the seventh
\* piece completes a column of PLAYER_1, the eighth a column of PLAYER_2.
OverplayedPositions == << <<0, 1, 0, 1, 0, 1, 0, 1>> >>

\* A game played to a draw: position 4 and the move that fills its last
\* cell.
DrawnPositions == << Append(Positions[4], 5) >>

\* The boards a node is searched on: the positions, and the won, the
\* overplayed and the drawn boards.
NodeGrids ==
    {PositionGrids[n] : n \in DOMAIN Positions}
        \cup {replay(EmptyGrid, WonPositions[n], PLAYER_1) : n \in DOMAIN WonPositions}
        \cup {replay(EmptyGrid, OverplayedPositions[n], PLAYER_1) : n \in DOMAIN OverplayedPositions}
        \cup {replay(EmptyGrid, DrawnPositions[n], PLAYER_1) : n \in DOMAIN DrawnPositions}

(***************************************************************************)
(* Bounds                                                                  *)
(***************************************************************************)
\* Spec: the caller drops at most MaxDrops pieces on the empty board.
MaxDrops == 7

\* SpecBot: the caller drops at most MaxExtra pieces on a position.
MaxExtra == 1

\* The bots are built with a difficulty of at most MaxDifficulty.
MaxDifficulty == 4

\* The difficulties the bots are built with: from -1, which gives a search
\* depth of 1, up.
Difficulties == (-1)..MaxDifficulty

\* Bot.__init__'s default difficulty.
DefaultDifficulty == 4

\* SpecCopy: the caller drops at most MaxCopyDrops pieces on a board and its
\* copy together.
MaxCopyDrops == 3

\* Spec: the columns the caller drops in; -1 and cols are out of range.
\* The board is played freely in its first MaxOpening drops and once no more
\* than MaxEmpty cells are empty.
MaxOpening == 2
MaxEmpty == 6

\* SpecPlay: the game loop is followed from the point of one of LoopGames at
\* which MaxLoopEmpty cells are empty.
MaxLoopEmpty == 12

\* A game is played freely in its first MaxOpening moves and once no more
\* than MaxRemaining cells are empty.
MaxRemaining == 10

\* A node is searched with a depth of at most MaxNodeDepth, and _minimax is
\* called at most MaxNodeCalls times in a row on a board.
MaxNodeDepth == 2
MaxNodeCalls == 2

\* The windows (alpha, beta) a node is searched with: the root's, and one
\* closed at 0 from either side.
NodeWindows == {<<NegInf, PosInf>>, <<NegInf, 0>>, <<0, PosInf>>}

\* Every list of 4 cell values.
Windows == [1..4 -> {EMPTY, PLAYER_1, PLAYER_2}]

\* The columns the queries are asked about: every column and one past each
\* edge.
QueryColumns == (-1)..cols

DropColumns == {-1, 0, 3, 6, cols}

(***************************************************************************)
(* Actions                                                                 *)
(***************************************************************************)
\* Bot(player_number=player, difficulty=difficulty)
BotInit(player, difficulty) ==
    /\ player_number = player
    /\ opponent_number = (IF player = PLAYER_2 THEN PLAYER_1 ELSE PLAYER_2)
    /\ search_depth = difficulty + 2
    /\ transposition_table = << >>

\* Game(): the game state beside the board.
GameInit ==
    /\ current_player = PLAYER_1
    /\ game_over = FALSE
    /\ winner = None

gamevars == <<current_player, game_over, winner>>

\* Board(), Bot() and Game()
Init ==
    /\ grid = EmptyGrid
    /\ BotInit(PLAYER_2, DefaultDifficulty)
    /\ ret = [op |-> "init"]
    /\ drops = 0
    /\ copied = NoBoard
    /\ GameInit

\* A new board, or a board on which the drops of one of the positions have
\* been made; drops counts the drops the board has accepted.
InitBoard ==
    /\ \/ grid = EmptyGrid /\ drops = 0
       \/ \E n \in DOMAIN Positions :
             grid = PositionGrids[n] /\ drops = Len(Positions[n])
       \/ \E n \in DOMAIN WonPositions :
             /\ grid = replay(EmptyGrid, WonPositions[n], PLAYER_1)
             /\ drops = Len(WonPositions[n])
    /\ BotInit(PLAYER_2, DefaultDifficulty)
    /\ ret = [op |-> "init"]
    /\ copied = NoBoard
    /\ GameInit

\* A new game, or a game in which the moves of one of the positions have
\* been made.
InitGame ==
    /\ \E game \in {new_game} \cup {play(new_game, Positions[n]) : n \in DOMAIN Positions} :
          /\ grid = game.grid
          /\ current_player = game.current_player
          /\ game_over = game.game_over
          /\ winner = game.winner
          /\ drops = rows * cols - Cardinality({cell \in (0..(rows - 1)) \X (0..(cols - 1)) : game.grid[cell[1]][cell[2]] = EMPTY})
    /\ BotInit(PLAYER_2, DefaultDifficulty)
    /\ ret = [op |-> "init"]
    /\ copied = NoBoard

\* TerminalUI(): a new game and Bot(player_number=PLAYER_2, difficulty=4);
\* play_game has run one of LoopGames up to the point where MaxLoopEmpty
\* cells are empty.
InitPlay ==
    /\ \E n \in DOMAIN LoopGames :
          \E game \in {play(new_game,
                            SubSeq(LoopGames[n], 1, rows * cols - MaxLoopEmpty))} :
              /\ grid = game.grid
              /\ current_player = game.current_player
              /\ game_over = game.game_over
              /\ winner = game.winner
    /\ drops = rows * cols - MaxLoopEmpty
    /\ BotInit(PLAYER_2, DefaultDifficulty)
    /\ ret = [op |-> "init"]
    /\ copied = NoBoard

\* A bot built for either player, beside a new board.
InitWindow ==
    /\ grid = EmptyGrid
    /\ \E player \in Players : BotInit(player, DefaultDifficulty)
    /\ ret = [op |-> "init"]
    /\ drops = 0
    /\ copied = NoBoard
    /\ GameInit

\* A new board, and a bot built for either player with any difficulty.
InitOpening ==
    \E player \in Players, difficulty \in Difficulties :
        /\ grid = EmptyGrid
        /\ BotInit(player, difficulty)
        /\ ret = [op |-> "init"]
        /\ drops = 0
        /\ copied = NoBoard
        /\ GameInit

\* One of the boards a node is searched on, and a bot built for either
\* player.
InitNode ==
    /\ grid \in NodeGrids
    /\ \E player \in Players : BotInit(player, DefaultDifficulty)
    /\ ret = [op |-> "init"]
    /\ drops = 0
    /\ copied = NoBoard
    /\ GameInit

\* A board as in InitBoard, and a bot built for either player.
InitEval ==
    /\ \/ grid = EmptyGrid /\ drops = 0
       \/ \E n \in DOMAIN Positions :
             grid = PositionGrids[n] /\ drops = Len(Positions[n])
       \/ \E n \in DOMAIN WonPositions :
             /\ grid = replay(EmptyGrid, WonPositions[n], PLAYER_1)
             /\ drops = Len(WonPositions[n])
    /\ \E player \in Players : BotInit(player, DefaultDifficulty)
    /\ ret = [op |-> "init"]
    /\ copied = NoBoard
    /\ GameInit

\* One of the positions has been set up on a new board, and a bot built.
InitBot ==
    \E n \in DOMAIN Positions, player \in Players,
       difficulty \in Difficulties :
        /\ grid = PositionGrids[n]
        /\ BotInit(player, difficulty)
        /\ ret = [op |-> "init"]
        /\ drops = 0
        /\ copied = NoBoard
        /\ GameInit

\* board.drop_piece(col, player) by the caller
DropPiece(col, player) ==
    \E d \in {drop_piece(grid, col, player)} :
       /\ grid' = d.grid
       /\ ret' = [op |-> "drop_piece", col |-> col, player |-> player,
                  success |-> d.success, row |-> d.row]
       /\ drops' = IF d.success THEN drops + 1 ELSE drops
       /\ copied' = write_through(copied, d.grid)
       /\ UNCHANGED <<player_number, opponent_number, search_depth,
                      transposition_table>>
       /\ UNCHANGED gamevars

\* bot.get_move(board) by the caller; stale is the number of entries the
\* table held when the call began.
GetMove ==
    \E r \in {get_move(player_number, opponent_number, search_depth,
                         [EmptyTable EXCEPT !.map = transposition_table],
                         grid)} :
       /\ ret' = [op |-> "get_move", move |-> r.move, path |-> r.path,
                  best_score |-> r.best_score, best_moves |-> r.best_moves,
                  sorted_moves |-> r.sorted_moves,
                  stale |-> Cardinality(DOMAIN transposition_table),
                  steps |-> r.table.steps, calls |-> r.table.calls,
                  order |-> r.table.order, failed |-> r.table.failed,
                  hits |-> r.table.hits]
       /\ transposition_table' = r.table.map
       /\ grid' = caller_board(grid, player_number, opponent_number)
       /\ UNCHANGED <<player_number, opponent_number, search_depth, drops>>
       /\ UNCHANGED <<copied, current_player, game_over, winner>>

\* board_copy = board.copy() by the caller
CopyBoard ==
    /\ copied' = copy(grid)
    /\ ret' = [op |-> "copy"]
    /\ UNCHANGED <<grid, drops, player_number, opponent_number, search_depth,
                   transposition_table>>
    /\ UNCHANGED gamevars

\* board_copy.drop_piece(col, player) by the caller
DropPieceOnCopy(col, player) ==
    /\ copied # NoBoard
    /\ \E d \in {drop_piece(copied, col, player)} :
          /\ copied' = d.grid
          /\ grid' = write_through(grid, d.grid)
          /\ ret' = [op |-> "copy.drop_piece", col |-> col, player |-> player,
                     success |-> d.success, row |-> d.row]
          /\ drops' = IF d.success THEN drops + 1 ELSE drops
    /\ UNCHANGED <<player_number, opponent_number, search_depth,
                   transposition_table>>
    /\ UNCHANGED gamevars

\* The caller drops pieces on a board and on the copy it has taken of it.
DropEither ==
    \E col \in DropColumns, player \in Players :
        /\ drops < MaxCopyDrops
        /\ DropPiece(col, player) \/ DropPieceOnCopy(col, player)

\* The caller drops pieces, in range or not, on a board that starts empty.
Drop ==
    \E col \in DropColumns, player \in Players :
        drops < MaxDrops /\ DropPiece(col, player)

\* The caller asks for a drop of either player in any column, in range or
\* not, full or not.
Attempt ==
    \E col \in QueryColumns, player \in Players :
        drops < MaxExtra /\ DropPiece(col, player)

\* The caller plays a piece of either player in a column that has room.
Play ==
    \E col \in 0..(cols - 1), player \in Players :
        drops < MaxExtra /\ is_valid_move(grid, col) /\ DropPiece(col, player)

\* game.reset() while the caller keeps its bot (as TerminalUI does), and
\* the new game played to position n.
NewGame(n) ==
    /\ grid # PositionGrids[n]
    /\ grid' = PositionGrids[n]
    /\ ret' = [op |-> "reset"]
    /\ drops' = 0
    /\ copied' = NoBoard
    /\ UNCHANGED <<player_number, opponent_number, search_depth,
                   transposition_table>>
    /\ UNCHANGED gamevars

Reset == \E n \in DOMAIN Positions : NewGame(n)

\* board.is_valid_move(col) by the caller
IsValidMove(col) ==
    /\ ret' = [op |-> "is_valid_move", col |-> col,
               value |-> is_valid_move(grid, col)]
    /\ UNCHANGED <<grid, drops, copied, player_number, opponent_number,
                   search_depth, transposition_table>>
    /\ UNCHANGED gamevars

\* board.get_valid_moves() by the caller
GetValidMoves ==
    /\ ret' = [op |-> "get_valid_moves", value |-> get_valid_moves(grid)]
    /\ UNCHANGED <<grid, drops, copied, player_number, opponent_number,
                   search_depth, transposition_table>>
    /\ UNCHANGED gamevars

\* board.check_win(player) by the caller
CheckWin(player) ==
    /\ ret' = [op |-> "check_win", player |-> player,
               value |-> check_win(grid, player)]
    /\ UNCHANGED <<grid, drops, copied, player_number, opponent_number,
                   search_depth, transposition_table>>
    /\ UNCHANGED gamevars

\* board.is_full() by the caller
IsFull ==
    /\ ret' = [op |-> "is_full", value |-> is_full(grid)]
    /\ UNCHANGED <<grid, drops, copied, player_number, opponent_number,
                   search_depth, transposition_table>>
    /\ UNCHANGED gamevars

\* One of the four queries of Board.
Query ==
    \/ \E col \in QueryColumns : IsValidMove(col)
    \/ GetValidMoves
    \/ \E player \in Players : CheckWin(player)
    \/ IsFull

\* board.drop_piece(col, player) by the caller, in the first drops of a board
\* or in its last ones.
Fill ==
    \E col \in QueryColumns, player \in Players :
        /\ drops < MaxOpening \/ rows * cols - drops <= MaxEmpty
        /\ DropPiece(col, player)

\* bot._evaluate_position(board)
Evaluate ==
    /\ ret' = [op |-> "evaluate_position",
               value |-> evaluate_position(grid, player_number, opponent_number)]
    /\ UNCHANGED <<grid, drops, copied, player_number, opponent_number,
                   search_depth, transposition_table>>
    /\ UNCHANGED gamevars

\* game.make_move(col) by the caller, in the first moves of a game, in its
\* last ones, or once it is over.
MakeMove(col) ==
    /\ game_over \/ drops < MaxOpening \/ rows * cols - drops <= MaxRemaining
    /\ \E m \in {make_move(grid, current_player, game_over, winner, col)} :
          /\ grid' = m.grid
          /\ current_player' = m.current_player
          /\ game_over' = m.game_over
          /\ winner' = m.winner
          /\ ret' = [op |-> "make_move", col |-> col, success |-> m.success,
                     message |-> m.message]
          /\ drops' = IF m.success THEN drops + 1 ELSE drops
    /\ UNCHANGED <<copied, player_number, opponent_number, search_depth,
                   transposition_table>>

\* One pass of play_game's loop on the human's turn: get_player_move returns
\* a column of game.get_valid_moves() and game.make_move(col) is called.
HumanTurn ==
    /\ ret.op # "quit"
    /\ ~game_over
    /\ current_player = PLAYER_1
    /\ \E col \in 0..(cols - 1) :
          /\ \E i \in DOMAIN get_valid_moves(grid) : get_valid_moves(grid)[i] = col
          /\ \E m \in {make_move(grid, current_player, game_over, winner, col)} :
                /\ grid' = m.grid
                /\ current_player' = m.current_player
                /\ game_over' = m.game_over
                /\ winner' = m.winner
                /\ ret' = [op |-> "human_turn", col |-> col,
                           success |-> m.success, message |-> m.message]
                /\ drops' = IF m.success THEN drops + 1 ELSE drops
    /\ UNCHANGED <<copied, player_number, opponent_number, search_depth,
                   transposition_table>>

\* One pass of the loop on the human's turn in which get_player_move returns
\* None ('q'): play_game returns.
Quit ==
    /\ ret.op # "quit"
    /\ ~game_over
    /\ current_player = PLAYER_1
    /\ ret' = [op |-> "quit"]
    /\ UNCHANGED <<grid, drops, copied, player_number, opponent_number,
                   search_depth, transposition_table>>
    /\ UNCHANGED gamevars

\* One pass of the loop on the bot's turn: col = bot.get_move(game.board),
\* then game.make_move(col); legal is the number of valid columns the bot
\* was asked with.
BotTurn ==
    /\ ret.op # "quit"
    /\ ~game_over
    /\ current_player # PLAYER_1
    /\ \E r \in {get_move(player_number, opponent_number, search_depth,
                            [EmptyTable EXCEPT !.map = transposition_table],
                            grid)} :
          \E m \in {make_move(caller_board(grid, player_number, opponent_number),
                               current_player, game_over, winner, r.move)} :
              /\ grid' = m.grid
              /\ current_player' = m.current_player
              /\ game_over' = m.game_over
              /\ winner' = m.winner
              /\ transposition_table' = r.table.map
              /\ ret' = [op |-> "bot_turn", col |-> r.move, path |-> r.path,
                         legal |-> Len(get_valid_moves(grid)),
                         success |-> m.success, message |-> m.message]
              /\ drops' = IF m.success THEN drops + 1 ELSE drops
    /\ UNCHANGED <<copied, player_number, opponent_number, search_depth>>

\* game.reset() by the caller
GameReset ==
    /\ grid' = new_game.grid
    /\ current_player' = new_game.current_player
    /\ game_over' = new_game.game_over
    /\ winner' = new_game.winner
    /\ ret' = [op |-> "game.reset"]
    /\ drops' = 0
    /\ UNCHANGED <<copied, player_number, opponent_number, search_depth,
                   transposition_table>>

\* bot._evaluate_window(window) for a list of 4 cell values
EvaluateWindow(window) ==
    /\ ret' = [op |-> "evaluate_window", window |-> window,
               value |-> evaluate_window(window, player_number, opponent_number)]
    /\ UNCHANGED <<grid, drops, copied, player_number, opponent_number,
                   search_depth, transposition_table>>
    /\ UNCHANGED gamevars

\* bot._minimax(board, depth, alpha, beta, is_maximizing) on the bot's table
\* as it is; nth counts the calls made in a row.
Minimax(depth, alpha, beta, is_maximizing) ==
    /\ ret.op = "minimax" => ret.nth < MaxNodeCalls
    /\ \E r \in {minimax(player_number, opponent_number,
                          [EmptyTable EXCEPT !.map = transposition_table],
                          grid, depth, alpha, beta, is_maximizing)} :
          /\ ret' = [op |-> "minimax", depth |-> depth, alpha |-> alpha,
                     beta |-> beta, is_maximizing |-> is_maximizing,
                     value |-> r.value, steps |-> r.table.steps,
                     nth |-> IF ret.op = "minimax" THEN ret.nth + 1 ELSE 1]
          /\ transposition_table' = r.table.map
    /\ UNCHANGED <<grid, drops, copied, player_number, opponent_number,
                   search_depth>>
    /\ UNCHANGED gamevars

\* A node searched with one of the depths and windows.
SearchNode ==
    \E depth \in 0..MaxNodeDepth, window \in NodeWindows,
       is_maximizing \in BOOLEAN :
        Minimax(depth, window[1], window[2], is_maximizing)

\* board = Board(); bot = Bot(...); bot.get_move(board): the new bot is asked
\* for the first move of a game.
OpeningMove == ret.op = "init" /\ grid = EmptyGrid /\ GetMove

Next == Drop

NextOpening == OpeningMove \/ Play

NextNode == SearchNode

NextWindow == \E window \in Windows : EvaluateWindow(window)

NextGame == (\E col \in QueryColumns : MakeMove(col)) \/ GameReset

NextEval == Fill \/ Evaluate

NextBoard == Fill \/ Query

NextBot == Play \/ GetMove

NextLegal == Attempt \/ GetMove

NextPlay == HumanTurn \/ Quit \/ BotTurn

Spec == Init /\ [][Next]_vars

NextReuse == Reset \/ GetMove

NextCopy == CopyBoard \/ DropEither

SpecPlay == InitPlay /\ [][NextPlay]_vars

\* A pass of play_game's loop that makes a move: the loop is running (the
\* game is not over, the player has not quit) and one more move is made.
LoopPass ==
    /\ ret.op # "quit"
    /\ ~game_over
    /\ drops' = drops + 1

\* The loop goes on: input() returns, get_move returns, and the body runs
\* again while the loop's condition holds.
SpecPlayFair == SpecPlay /\ WF_drops(LoopPass)

SpecLegal == InitBot /\ [][NextLegal]_vars

SpecBot == InitBot /\ [][NextBot]_vars

SpecCopy == Init /\ [][NextCopy]_vars

SpecEval == InitEval /\ [][NextEval]_vars

SpecGame == InitGame /\ [][NextGame]_vars

SpecWindow == InitWindow /\ [][NextWindow]_vars

SpecNode == InitNode /\ [][NextNode]_vars

SpecOpening == InitOpening /\ [][NextOpening]_vars

SpecBoard == InitBoard /\ [][NextBoard]_vars

SpecReuse == InitBot /\ [][NextReuse]_vars


(***************************************************************************)
(* Properties of get_move: the early returns                               *)
(***************************************************************************)
\* The columns with room where a piece of player completes four in a row.
WinningColumns(player) ==
    {col \in 0..(cols - 1) :
        /\ grid[0][col] = EMPTY
        /\ check_win(drop_piece(grid, col, player).grid, player)}

Lowest(columns) == CHOOSE col \in columns : \A other \in columns : col <= other

\* ret is what get_move returned on the board as it is now.
Returned == ret.op = "get_move"

\* C1: whenever some column with room wins at once for the bot, get_move
\* returns the lowest-indexed such column, at every search depth >= 1 and
\* whether or not the opponent has a winning column too.
ImmediateWinPriority ==
    (Returned /\ search_depth >= 1 /\ WinningColumns(player_number) # {})
        => ret.move = Lowest(WinningColumns(player_number))

\* get_move has answered a board on which the bot has two winning columns and
\* the opponent one of its own.
ImmediateWinWitness ==
    /\ Returned
    /\ Cardinality(WinningColumns(player_number)) >= 2
    /\ WinningColumns(opponent_number) # {}
    /\ ret.path = "win"
    /\ ret.move = Lowest(WinningColumns(player_number))

\* C2: whenever no column wins at once for the bot and some column with room
\* would win at once for the opponent, get_move returns the lowest-indexed
\* such column.
ImmediateBlockPriority ==
    (/\ Returned
     /\ WinningColumns(player_number) = {}
     /\ WinningColumns(opponent_number) # {})
        => ret.move = Lowest(WinningColumns(opponent_number))

\* get_move has answered a board on which the bot cannot win at once and the
\* opponent has two winning columns.
ImmediateBlockWitness ==
    /\ Returned
    /\ WinningColumns(player_number) = {}
    /\ Cardinality(WinningColumns(opponent_number)) >= 2
    /\ ret.path = "block"
    /\ ret.move = Lowest(WinningColumns(opponent_number))

\* C3: on a board with at least one column with room, get_move returns a
\* column index in 0..cols-1 whose top cell is empty, on the win, the block
\* and the search path alike.
ReturnsLegalColumn ==
    (Returned /\ \E col \in 0..(cols - 1) : grid[0][col] = EMPTY)
        => /\ ret.move \in 0..(cols - 1)
           /\ grid[0][ret.move] = EMPTY
           /\ ret.path \in {"win", "block", "search"}

\* The search path has answered a board whose center column is full with
\* several tied best moves.
ReturnsLegalColumnWitness ==
    /\ Returned
    /\ ret.path = "search"
    /\ Len(ret.best_moves) > 1
    /\ grid[0][cols \div 2] # EMPTY
    /\ grid[0][ret.move] = EMPTY

\* C4: on a board whose every top cell is occupied get_move returns the
\* sentinel -1, and it has searched nothing: no root score, no best move, no
\* table entry.
FullBoardReturnsSentinel ==
    (Returned /\ \A col \in 0..(cols - 1) : grid[0][col] # EMPTY)
        => /\ ret.move = -1
           /\ ret.path = "none"
           /\ ret.best_moves = << >>
           /\ ret.sorted_moves = << >>
           /\ transposition_table = << >>

\* get_move has answered a full board.
FullBoardWitness ==
    /\ Returned
    /\ \A row \in 0..(rows - 1), col \in 0..(cols - 1) : grid[row][col] # EMPTY
    /\ ret.move = -1

(***************************************************************************)
(* Properties of get_move: the search                                      *)
(***************************************************************************)
\* Plain minimax: _minimax's terminal scoring and evaluator, every valid move
\* tried in turn, no pruning and no table.
RECURSIVE PlainMinimax(_, _, _, _)
RECURSIVE PlainBest(_, _, _, _, _)

PlainMinimax(g, depth, is_maximizing, moves) ==
    IF check_win(g, player_number) THEN 1000 + depth
    ELSE IF check_win(g, opponent_number) THEN -1000 - depth
    ELSE IF is_full(g) \/ depth = 0
    THEN evaluate_position(g, player_number, opponent_number)
    ELSE PlainBest(g, depth, is_maximizing, moves, 1)

\* The best of the plain values of moves[i], moves[i+1], ... for the side
\* that moves at g.
PlainBest(g, depth, is_maximizing, moves, i) ==
    LET child == drop_piece(g, moves[i],
                            IF is_maximizing THEN player_number
                            ELSE opponent_number).grid
        value == PlainMinimax(child, depth - 1, ~is_maximizing,
                              get_valid_moves(child))
    IN IF i = Len(moves) THEN value
       ELSE IF is_maximizing
       THEN max(value, PlainBest(g, depth, is_maximizing, moves, i + 1))
       ELSE min(value, PlainBest(g, depth, is_maximizing, moves, i + 1))

\* The plain minimax value of the bot's move col on the board as it is now,
\* searched to search_depth - 1 after the move with the opponent to reply.
PlainValue(col) ==
    PlainMinimax(drop_piece(grid, col, player_number).grid, search_depth - 1,
                 FALSE,
                 get_valid_moves(drop_piece(grid, col, player_number).grid))

\* C5: when neither the win check nor the block check fires, the column
\* get_move returns has the greatest plain minimax value of all columns with
\* room, and so has every column it recorded as tied for the best score.
RootSearchOptimal ==
    (Returned /\ ret.path = "search")
        => \A col \in 0..(cols - 1) :
              grid[0][col] = EMPTY =>
                  /\ PlainValue(col) <= PlainValue(ret.move)
                  /\ \A i \in DOMAIN ret.best_moves :
                        PlainValue(col) <= PlainValue(ret.best_moves[i])

\* C6: the best score the root search finds with the transposition table in
\* use equals the best score the same search finds with a table whose
\* lookups always miss and whose stores do nothing.
CacheSoundness ==
    (Returned /\ ret.path = "search")
        => ret.best_score =
              search_from(player_number, opponent_number, search_depth,
                          NoOpTable, grid).best_score

\* C7: the column get_move returns is the column a bot of the same player
\* and search depth returns on an equal board from an empty table, whatever
\* the earlier calls on this bot left in its table.
DeterministicMove ==
    Returned
        => ret.move = get_move(player_number, opponent_number, search_depth,
                               EmptyTable, grid).move

\* A search has answered on a bot whose table still held the entries of an
\* earlier search.
DeterministicMoveWitness ==
    /\ Returned
    /\ ret.stale > 0
    /\ ret.path = "search"
    /\ transposition_table # << >>

\* The columns the root search recorded as tied for the best score.
Tied == {ret.best_moves[i] : i \in DOMAIN ret.best_moves}

Distance(col) == abs(col - cols \div 2)

\* The evaluation of the board after the bot drops in col: what the root
\* orders its moves by.
OnePly(col) ==
    evaluate_position(drop_piece(grid, col, player_number).grid,
                      player_number, opponent_number)

\* C8 as claimed: when several columns tie for the best root score, get_move
\* returns the tied column closest to the center column, and the
\* lowest-indexed one among tied columns equally far from the center.
TieBreakLowestIndex ==
    (Returned /\ ret.path = "search" /\ Len(ret.best_moves) > 1)
        => /\ ret.move \in Tied
           /\ \A col \in Tied :
                 \/ Distance(ret.move) < Distance(col)
                 \/ Distance(ret.move) = Distance(col) /\ ret.move <= col

\* C8 as amended: when several columns tie for the best root score, get_move
\* returns the tied column closest to the center column, and among tied
\* columns equally far from the center the one the root searched first: the
\* one with the higher one-ply evaluation, the lower-indexed one when those
\* evaluations are equal.
TieBreakSearchOrder ==
    (Returned /\ ret.path = "search" /\ Len(ret.best_moves) > 1)
        => /\ ret.move \in Tied
           /\ \A col \in Tied :
                 \/ Distance(ret.move) < Distance(col)
                 \/ /\ Distance(ret.move) = Distance(col)
                    /\ \/ OnePly(ret.move) > OnePly(col)
                       \/ OnePly(ret.move) = OnePly(col) /\ ret.move <= col

\* The search has answered with two tied columns equally far from the center.
TieBreakWitness ==
    /\ Returned
    /\ ret.path = "search"
    /\ \E col \in Tied :
          col # ret.move /\ Distance(col) = Distance(ret.move)

(***************************************************************************)
(* Properties of the board                                                 *)
(***************************************************************************)
\* C9: on every board reached from the empty board by drop_piece calls,
\* accepted or refused, every cell beneath an occupied cell of the same
\* column is occupied.
GravityInvariant ==
    \A col \in 0..(cols - 1), row \in 0..(rows - 1) :
        grid[row][col] # EMPTY =>
            \A below \in (row + 1)..(rows - 1) : grid[below][col] # EMPTY

\* Some column holds a stack of three pieces beside an empty column, and a
\* drop has been refused on the way.
GravityWitness ==
    /\ \E col \in 0..(cols - 1) :
          grid[rows - 3][col] # EMPTY /\ grid[rows - 4][col] = EMPTY
    /\ \E col \in 0..(cols - 1) : grid[rows - 1][col] = EMPTY
    /\ ret.op = "drop_piece"
    /\ ~ret.success

\* C10: a drop_piece call with a column outside 0..cols-1 or with a full
\* column returns (False, None) and leaves every cell of the grid as it was.
RefusedDropChangesNothing ==
    [][(/\ ret'.op = "drop_piece"
        /\ \/ ret'.col \notin 0..(cols - 1)
           \/ grid[0][ret'.col] # EMPTY)
          => /\ ret'.success = FALSE
             /\ ret'.row = None
             /\ grid' = grid]_vars

\* A drop on a full column has been refused.
RefusedDropWitness ==
    /\ ret.op = "drop_piece"
    /\ ret.col \in 0..(cols - 1)
    /\ \A row \in 0..(rows - 1) : grid[row][ret.col] # EMPTY
    /\ ~ret.success
    /\ ret.row = None

\* The number of pieces in column col of grid g.
Height(g, col) == Cardinality({row \in 0..(rows - 1) : g[row][col] # EMPTY})

\* C11: an accepted drop_piece(col, player) writes player into one cell, the
\* empty cell of column col with the largest row index, returns that row and
\* leaves every other cell as it was; the k-th accepted drop into a column
\* that was empty lands in row rows-k.
AcceptedDropWritesOneCell ==
    [][(ret'.op = "drop_piece" /\ ret'.success)
          => /\ ret'.col \in 0..(cols - 1)
             /\ ret'.row \in 0..(rows - 1)
             /\ grid[ret'.row][ret'.col] = EMPTY
             /\ \A below \in (ret'.row + 1)..(rows - 1) :
                   grid[below][ret'.col] # EMPTY
             /\ grid'[ret'.row][ret'.col] = ret'.player
             /\ \A row \in 0..(rows - 1), col \in 0..(cols - 1) :
                   <<row, col>> # <<ret'.row, ret'.col>>
                       => grid'[row][col] = grid[row][col]
             /\ ret'.row = rows - Height(grid', ret'.col)]_vars

\* The third accepted drop into a column has landed in row rows-3.
AcceptedDropWitness ==
    /\ ret.op = "drop_piece"
    /\ ret.success
    /\ ret.row = rows - 3
    /\ Height(grid, ret.col) = 3

\* C15: copy() returns a board of the same dimensions and cell contents as
\* the original, and from then on a drop_piece call on either board leaves
\* the grid of the other as it was.
CopyIsIndependent ==
    [][/\ ret'.op = "copy"
           => /\ DOMAIN copied' = 0..(rows - 1)
              /\ \A row \in 0..(rows - 1) :
                    /\ DOMAIN copied'[row] = 0..(cols - 1)
                    /\ \A col \in 0..(cols - 1) :
                          copied'[row][col] = grid[row][col]
              /\ grid' = grid
       /\ ret'.op = "drop_piece" => copied' = copied
       /\ ret'.op = "copy.drop_piece" => grid' = grid]_vars

\* After a copy both boards have taken a piece the other does not hold.
CopyWitness ==
    /\ copied # NoBoard
    /\ \E row \in 0..(rows - 1), col \in 0..(cols - 1) :
          grid[row][col] # EMPTY /\ copied[row][col] = EMPTY
    /\ \E row \in 0..(rows - 1), col \in 0..(cols - 1) :
          grid[row][col] = EMPTY /\ copied[row][col] # EMPTY

\* C16: get_move leaves the board it is given cell for cell as it was,
\* whichever way it returns: sentinel, immediate win, immediate block or
\* search.
GetMoveLeavesBoard ==
    [][ret'.op = "get_move"
          => \A row \in 0..(rows - 1), col \in 0..(cols - 1) :
                grid'[row][col] = grid[row][col]]_vars

\* The search has answered and the board is still the position set up.
GetMoveLeavesBoardWitness ==
    /\ Returned
    /\ ret.path = "search"
    /\ drops = 0
    /\ \E n \in DOMAIN Positions : grid = PositionGrids[n]

\* C17: every get_move call empties the table before anything else: a call
\* that returns early (sentinel, immediate win, immediate block) leaves the
\* table empty, and a call that searches leaves exactly the entries a bot with
\* an empty table writes on the same board, so nothing an earlier call wrote
\* is read or kept.
TableResetEveryCall ==
    Returned
        => /\ ret.path # "search" => transposition_table = << >>
           /\ transposition_table
                 = search_from(player_number, opponent_number, search_depth,
                               EmptyTable, grid).table.map

\* An early return on a bot whose table held the entries of an earlier
\* search when the call started.
TableResetWitness ==
    /\ Returned
    /\ ret.stale > 0
    /\ ret.path \in {"win", "block"}
    /\ transposition_table = << >>

\* Some cell of g is empty.
HasEmptyCell(g) ==
    \E row \in 0..(rows - 1), col \in 0..(cols - 1) : g[row][col] = EMPTY

\* C12: get_valid_moves returns the columns in strictly ascending order
\* (hence without duplicates), and they are exactly the columns inside the
\* board whose top cell is empty; is_valid_move(c) is true exactly for those
\* columns.
ValidMovesAscendingExact ==
    /\ ret.op = "get_valid_moves"
          => /\ \A i \in 1..(Len(ret.value) - 1) : ret.value[i] < ret.value[i + 1]
             /\ {ret.value[i] : i \in 1..Len(ret.value)}
                   = {c \in 0..(cols - 1) : grid[0][c] = EMPTY}
             /\ \A c \in QueryColumns :
                   is_valid_move(grid, c)
                      <=> \E i \in 1..Len(ret.value) : ret.value[i] = c
    /\ ret.op = "is_valid_move"
          => (ret.value <=> /\ 0 <= ret.col
                            /\ ret.col < cols
                            /\ grid[0][ret.col] = EMPTY)

\* get_valid_moves has answered on a board with full columns between open
\* ones.
ValidMovesWitness ==
    /\ ret.op = "get_valid_moves"
    /\ Len(ret.value) >= 2
    /\ \E c \in 1..(cols - 2) :
          /\ grid[0][c] # EMPTY
          /\ grid[0][c - 1] = EMPTY
          /\ grid[0][c + 1] = EMPTY

\* The four directions of a line: along a row, down a column, down-right and
\* up-right.
Directions == {<<0, 1>>, <<1, 0>>, <<1, 1>>, <<-1, 1>>}

\* Four consecutive cells of g from (row, col) in direction d lie on the
\* board and all hold player.
LineAt(g, player, row, col, d) ==
    \A k \in 0..3 :
        /\ row + k * d[1] \in 0..(rows - 1)
        /\ col + k * d[2] \in 0..(cols - 1)
        /\ g[row + k * d[1]][col + k * d[2]] = player

HasLine(g, player) ==
    \E row \in 0..(rows - 1), col \in 0..(cols - 1), d \in Directions :
        LineAt(g, player, row, col, d)

\* C13: check_win(player) is true exactly when the grid holds four
\* consecutive cells of player along a row, a column, a down-right or an
\* up-right diagonal; so it is false for a player without a line whatever the
\* other player has, and false on the empty board.
CheckWinIffLine ==
    ret.op = "check_win"
        => /\ ret.value <=> HasLine(grid, ret.player)
           /\ grid = EmptyGrid => ~ret.value

\* check_win has answered false for a player without a line on a board where
\* the other player has one, and that one is an up-right diagonal.
CheckWinWitness ==
    /\ ret.op = "check_win"
    /\ ~ret.value
    /\ \E row \in 0..(rows - 1), col \in 0..(cols - 1) :
          LineAt(grid, other_player(ret.player), row, col, <<-1, 1>>)

\* C14: on a board built by drops from the empty board, is_full is true
\* exactly when rows*cols drops have been accepted, exactly when no cell is
\* empty, and exactly when get_valid_moves is empty.
FullIffAllDropped ==
    ret.op = "is_full"
        => /\ ret.value <=> drops = rows * cols
           /\ ret.value <=> ~HasEmptyCell(grid)
           /\ ret.value <=> get_valid_moves(grid) = << >>

\* is_full has answered true after the last of rows*cols drops.
FullWitness ==
    /\ ret.op = "is_full"
    /\ ret.value
    /\ drops = rows * cols

\* g mirrored left to right (column c exchanged with column cols-1-c), every
\* piece recoloured to the other player.
MirrorSwapped(g) ==
    [row \in 0..(rows - 1) |->
        [col \in 0..(cols - 1) |->
            IF g[row][cols - 1 - col] = EMPTY THEN EMPTY
            ELSE other_player(g[row][cols - 1 - col])]]

\* C18: the evaluator's score of a board equals its score of the mirrored
\* board with the pieces recoloured and the bot's and the opponent's numbers
\* exchanged.
EvaluatorSymmetry ==
    ret.op = "evaluate_position"
        => ret.value = evaluate_position(MirrorSwapped(grid), opponent_number,
                                         player_number)

\* The evaluator has scored a board that is not its own mirror image, pieces
\* of both players in the up-right windows of column 3, and the score depends
\* on whose perspective it is.
EvaluatorSymmetryWitness ==
    /\ ret.op = "evaluate_position"
    /\ \E row \in 0..(rows - 1), col \in 0..(cols - 1) :
          (grid[row][col] = EMPTY) # (grid[row][cols - 1 - col] = EMPTY)
    /\ grid[rows - 1][3] # EMPTY
    /\ ret.value # evaluate_position(grid, opponent_number, player_number)

\* C19: a make_move that fails changes nothing: it fails exactly when the
\* game is over or the column is out of range or full, it returns False with
\* a message, and the board, current_player, game_over and winner stay as
\* they were; so once the game is over no make_move alters the board.
FailedMoveChangesNothing ==
    [][ret'.op = "make_move"
          => /\ ~ret'.success
                  <=> \/ game_over
                      \/ ret'.col \notin 0..(cols - 1)
                      \/ grid[0][ret'.col] # EMPTY
             /\ ~ret'.success
                  => /\ ret'.message
                          = (IF game_over THEN "Game is already over."
                             ELSE "Invalid move.")
                     /\ grid' = grid
                     /\ current_player' = current_player
                     /\ game_over' = game_over
                     /\ winner' = winner]_vars

\* make_move has been refused on a game that is over, for a column that
\* still has room.
FailedMoveWitness ==
    /\ ret.op = "make_move"
    /\ ~ret.success
    /\ ret.message = "Game is already over."
    /\ game_over
    /\ is_valid_move(grid, ret.col)

\* C20: a successful make_move that gives the mover four in a row sets
\* game_over, sets winner to the mover, leaves current_player on the mover
\* and reports the win, also when the move fills the board.
WinningMoveEndsGame ==
    [][(ret'.op = "make_move" /\ ret'.success /\ HasLine(grid', current_player))
          => /\ game_over'
             /\ winner' = current_player
             /\ current_player' = current_player
             /\ ret'.message = wins_message(current_player)]_vars

\* The move that filled the board gave the mover four in a row, and the win
\* is what the game holds.
WinningMoveWitness ==
    /\ ret.op = "make_move"
    /\ ret.success
    /\ ~HasEmptyCell(grid)
    /\ HasLine(grid, current_player)
    /\ game_over
    /\ winner = current_player

\* The number of cells of g that hold player.
Pieces(g, player) ==
    Cardinality({cell \in (0..(rows - 1)) \X (0..(cols - 1)) :
                    g[cell[1]][cell[2]] = player})

\* C21: a successful make_move that does not end the game hands the turn to
\* the other player; so in every state of a game PLAYER_1 has as many pieces
\* as PLAYER_2 or one more, and while the game is not over it is PLAYER_1's
\* turn exactly when the counts are equal.
TurnsAlternate ==
    /\ [](/\ Pieces(grid, PLAYER_1) - Pieces(grid, PLAYER_2) \in {0, 1}
          /\ current_player \in Players
          /\ ~game_over
                => (current_player = PLAYER_1
                       <=> Pieces(grid, PLAYER_1) = Pieces(grid, PLAYER_2)))
    /\ [][(ret'.op = "make_move" /\ ret'.success /\ ~game_over')
             => current_player' = other_player(current_player)]_vars

\* An accepted move of PLAYER_1 has left the game open and the turn with
\* PLAYER_2.
TurnsAlternateWitness ==
    /\ ret.op = "make_move"
    /\ ret.success
    /\ ~game_over
    /\ current_player = PLAYER_2
    /\ Pieces(grid, PLAYER_1) = Pieces(grid, PLAYER_2) + 1

\* C22: a successful make_move after which the board is full and the mover
\* has no four in a row ends the game as a draw: game_over is set, winner
\* stays None and the draw message is returned.
DrawDetected ==
    [][(/\ ret'.op = "make_move"
        /\ ret'.success
        /\ ~HasEmptyCell(grid')
        /\ ~HasLine(grid', current_player))
          => /\ game_over'
             /\ winner' = None
             /\ ret'.message = "Game ended in a draw."]_vars

\* The last cell has been filled without a line for either player and the
\* game is over without a winner.
DrawWitness ==
    /\ ret.op = "make_move"
    /\ ret.success
    /\ ~HasEmptyCell(grid)
    /\ ~HasLine(grid, PLAYER_1)
    /\ ~HasLine(grid, PLAYER_2)
    /\ game_over
    /\ winner = None

\* C25, as stated: no cell is empty while the cell directly below it (the
\* next row toward the bottom row) is occupied.
NoEmptyAboveOccupied ==
    \A col \in 0..(cols - 1), row \in 0..(rows - 2) :
        ~(grid[row][col] = EMPTY /\ grid[row + 1][col] # EMPTY)

\* C25, amended: after any sequence of drops no cell is occupied while the
\* cell directly below it (the next row toward the bottom row) is empty.
NoOccupiedAboveEmpty ==
    \A col \in 0..(cols - 1), row \in 0..(rows - 2) :
        ~(grid[row][col] # EMPTY /\ grid[row + 1][col] = EMPTY)

\* An accepted drop has landed on top of another piece and the cell above it
\* is empty.
NoOccupiedAboveEmptyWitness ==
    /\ ret.op = "drop_piece"
    /\ ret.success
    /\ ret.row \in 1..(rows - 2)
    /\ grid[ret.row + 1][ret.col] # EMPTY
    /\ grid[ret.row - 1][ret.col] = EMPTY

\* How many cells of window hold v.
Holds(window, v) == Cardinality({i \in DOMAIN window : window[i] = v})

\* The score of a window with bot pieces of the bot, opp of the opponent and
\* empty empty cells.
ScoreOfCounts(bot, opp, empty) ==
    CASE bot = 4 -> 100
      [] bot = 3 /\ empty = 1 -> 10
      [] bot = 2 /\ empty = 2 -> 3
      [] opp = 3 /\ empty = 1 -> -50
      [] opp = 2 /\ empty = 2 -> -5
      [] OTHER -> 0

\* C29: _evaluate_window scores four bot pieces 100, three and an empty cell
\* 10, two and two empty cells 3, three opponent pieces and an empty cell
\* -50, two and two empty cells -5, and every other window 0 (pieces of both
\* players, a single piece, all empty, four opponent pieces); windows with
\* the same counts score the same, whatever the order of their cells.
WindowScoring ==
    ret.op = "evaluate_window"
        => /\ ret.value = ScoreOfCounts(Holds(ret.window, player_number),
                                        Holds(ret.window, opponent_number),
                                        Holds(ret.window, EMPTY))
           /\ (Holds(ret.window, player_number) > 0
                  /\ Holds(ret.window, opponent_number) > 0) => ret.value = 0
           /\ Holds(ret.window, opponent_number) = 4 => ret.value = 0
           /\ Holds(ret.window, EMPTY) >= 3 => ret.value = 0
           /\ \A other \in Windows :
                 (\A v \in {EMPTY, PLAYER_1, PLAYER_2} :
                     Holds(other, v) = Holds(ret.window, v))
                    => evaluate_window(other, player_number, opponent_number)
                          = ret.value

\* A window of four opponent pieces has been scored 0.
WindowScoringWitness ==
    /\ ret.op = "evaluate_window"
    /\ Holds(ret.window, opponent_number) = 4
    /\ ret.value = 0

\* The sum of f over the finite set S.
RECURSIVE SumOver(_, _)
SumOver(f, S) ==
    IF S = {} THEN 0
    ELSE f[CHOOSE x \in S : TRUE] + SumOver(f, S \ {CHOOSE x \in S : TRUE})

Cells == (0..(rows - 1)) \X (0..(cols - 1))

\* Every run of four cells on the board along a row, a column or a
\* diagonal, as its first cell and its direction.
BoardWindows ==
    {w \in Cells \X Directions :
        /\ w[1][1] + 3 * w[2][1] \in 0..(rows - 1)
        /\ w[1][2] + 3 * w[2][2] \in 0..(cols - 1)}

\* The cells of window w of g.
WindowOf(g, w) ==
    [k \in 1..4 |-> g[w[1][1] + (k - 1) * w[2][1]][w[1][2] + (k - 1) * w[2][2]]]

\* C30: _evaluate_position is the sum of the weight of every cell of the bot
\* less the weight of every cell of the opponent, of the score of each of
\* the 69 windows, and of 3 for each piece of the bot in column cols // 2
\* (nothing is taken off for the opponent's pieces there); it leaves the
\* board as it was.
EvaluatorTotal ==
    /\ [](ret.op = "evaluate_position"
            => /\ Cardinality(BoardWindows) = 69
               /\ ret.value
                    = SumOver([cell \in Cells |->
                                  IF grid[cell[1]][cell[2]] = player_number
                                  THEN position_weights[cell[1] + 1][cell[2] + 1]
                                  ELSE IF grid[cell[1]][cell[2]] = opponent_number
                                  THEN 0 - position_weights[cell[1] + 1][cell[2] + 1]
                                  ELSE 0], Cells)
                      + SumOver([w \in BoardWindows |->
                                    ScoreOfCounts(
                                        Holds(WindowOf(grid, w), player_number),
                                        Holds(WindowOf(grid, w), opponent_number),
                                        Holds(WindowOf(grid, w), EMPTY))],
                                BoardWindows)
                      + 3 * Cardinality({row \in 0..(rows - 1) :
                                            grid[row][cols \div 2] = player_number}))
    /\ [][ret'.op = "evaluate_position" => grid' = grid]_vars

\* A board with pieces of both players in the center column has been scored.
EvaluatorTotalWitness ==
    /\ ret.op = "evaluate_position"
    /\ \E row \in 0..(rows - 1) : grid[row][cols \div 2] = player_number
    /\ \E row \in 0..(rows - 1) : grid[row][cols \div 2] = opponent_number
    /\ \E col \in 0..(cols - 1) : grid[0][col] = EMPTY

\* The number of nodes below the root of a tree of the given depth in which
\* every node has one child per column.
RECURSIVE TreeSize(_)
TreeSize(depth) == IF depth <= 0 THEN 0 ELSE cols * (1 + TreeSize(depth - 1))

\* C23: with search_depth >= 1 get_move returns, after no more _minimax calls
\* than the full tree of that depth has nodes; every call is made with the
\* depth of its caller less one, never with a negative depth, and never from
\* a node of depth 0 or a node whose board is won or full.
SearchTerminates ==
    (Returned /\ search_depth >= 1)
        => /\ ret.steps \in 0..TreeSize(search_depth)
           /\ \A c \in ret.calls :
                 /\ c.depth = c.caller - 1
                 /\ c.depth >= 0
                 /\ ~c.caller_stops

\* A search of depth 6 has returned after calls of every depth from 5 down
\* to 0.
SearchTerminatesWitness ==
    /\ Returned
    /\ ret.path = "search"
    /\ search_depth = 6
    /\ \A depth \in 0..5 : \E c \in ret.calls : c.depth = depth
    /\ ret.steps > cols

\* The bound kind the alpha-beta convention gives a score found with the
\* window (alpha, beta).
BoundKind(score, alpha, beta) ==
    IF score <= alpha THEN "upper"
    ELSE IF score >= beta THEN "lower"
    ELSE "exact"

\* C26: a node that was searched with the window (alpha, beta) and finished
\* with score s leaves in the table, for its board, its depth and s, tagged
\* 'upper' if s <= alpha, 'lower' if s >= beta and 'exact' otherwise, alpha
\* and beta being the bounds the node was called with.
StoreClassification ==
    [][(ret'.op = "minimax" /\ ret'.steps > 0)
          => /\ get_board_hash(grid) \in DOMAIN transposition_table'
             /\ transposition_table'[get_board_hash(grid)].depth = ret'.depth
             /\ transposition_table'[get_board_hash(grid)].value = ret'.value
             /\ transposition_table'[get_board_hash(grid)].type
                   = BoundKind(ret'.value, ret'.alpha, ret'.beta)]_vars

\* Neither player has four in a row on g and g is not full.
Open(g) == ~HasLine(g, PLAYER_1) /\ ~HasLine(g, PLAYER_2) /\ HasEmptyCell(g)

\* What the node of call `call` on the board gives when it runs its loop with
\* the window (alpha, beta) on the table as it is.
Searched(call, alpha, beta) ==
    search_node(player_number, opponent_number,
                [EmptyTable EXCEPT !.map = transposition_table], grid,
                call.depth, call.is_maximizing, get_board_hash(grid),
                [found |-> FALSE, cutoff |-> FALSE, value |-> 0,
                 alpha |-> alpha, beta |-> beta])

\* The call returned what the loop result r gives, and left the table that
\* loop leaves.
Ran(call, table_after, r) ==
    /\ call.value = r.value
    /\ call.steps = r.table.steps
    /\ table_after = r.table.map

\* The call ran its loop with the window (alpha, beta).
RanLoop(call, table_after, alpha, beta) ==
    Ran(call, table_after, Searched(call, alpha, beta))

\* The call returned the stored score of its board without recursion and
\* without writing the table.
ReturnedStored(call, table_after) ==
    /\ call.value = transposition_table[get_board_hash(grid)].value
    /\ call.steps = 0
    /\ table_after = transposition_table

\* The lookup of the call, for the entry the table holds before it.
LookupRule(call, table_after) ==
    IF get_board_hash(grid) \notin DOMAIN transposition_table
    THEN RanLoop(call, table_after, call.alpha, call.beta)
    ELSE IF transposition_table[get_board_hash(grid)].depth < call.depth
    THEN RanLoop(call, table_after, call.alpha, call.beta)
    ELSE IF transposition_table[get_board_hash(grid)].type = "exact"
    THEN ReturnedStored(call, table_after)
    ELSE IF transposition_table[get_board_hash(grid)].type = "lower"
    THEN IF max(call.alpha, transposition_table[get_board_hash(grid)].value)
               >= call.beta
         THEN ReturnedStored(call, table_after)
         ELSE RanLoop(call, table_after,
                      max(call.alpha,
                          transposition_table[get_board_hash(grid)].value),
                      call.beta)
    ELSE IF min(call.beta, transposition_table[get_board_hash(grid)].value)
               <= call.alpha
         THEN ReturnedStored(call, table_after)
         ELSE RanLoop(call, table_after, call.alpha,
                      min(call.beta,
                          transposition_table[get_board_hash(grid)].value))

\* C27: at a node the lookup leaves everything as it is when the table has
\* no entry for the board or one of smaller depth; an 'exact' entry of
\* sufficient depth is returned without recursion; a 'lower' one raises
\* alpha to max(alpha, stored), an 'upper' one lowers beta to
\* min(beta, stored), and the stored score is returned without recursion
\* exactly when alpha >= beta after that.
LookupTightens ==
    [][(ret'.op = "minimax" /\ ret'.depth # 0 /\ Open(grid))
          => LookupRule(ret', transposition_table')]_vars

\* A second call on a board has returned, without recursion, the score a
\* 'lower' entry of sufficient depth held for it.
LookupWitness ==
    /\ ret.op = "minimax"
    /\ ret.nth = 2
    /\ ret.depth # 0
    /\ Open(grid)
    /\ ret.steps = 0
    /\ get_board_hash(grid) \in DOMAIN transposition_table
    /\ transposition_table[get_board_hash(grid)].type = "lower"
    /\ transposition_table[get_board_hash(grid)].depth >= ret.depth
    /\ transposition_table[get_board_hash(grid)].value = ret.value

\* The value _minimax gives the board with one more ply of depth than the
\* call on record, on the table as it is.
ValueOnePlyDeeper ==
    minimax(player_number, opponent_number,
            [EmptyTable EXCEPT !.map = transposition_table], grid,
            ret.depth + 1, ret.alpha, ret.beta, ret.is_maximizing).value

\* C28: _minimax scores a board on which the bot has four in a row
\* 1000 + depth, otherwise one on which the opponent has four in a row
\* -1000 - depth, otherwise a full board or depth 0 by the evaluator; in
\* these cases it makes no call and neither reads nor writes the table; a
\* bot win scores more with more depth left, an opponent win scores more
\* with less depth left.
TerminalScoring ==
    /\ [](ret.op = "minimax"
            => IF HasLine(grid, player_number)
               THEN /\ ret.value = 1000 + ret.depth
                    /\ ret.steps = 0
                    /\ ValueOnePlyDeeper > ret.value
               ELSE IF HasLine(grid, opponent_number)
               THEN /\ ret.value = -1000 - ret.depth
                    /\ ret.steps = 0
                    /\ ValueOnePlyDeeper < ret.value
               ELSE (~HasEmptyCell(grid) \/ ret.depth = 0)
                       => /\ ret.value = evaluate_position(grid, player_number,
                                                           opponent_number)
                          /\ ret.steps = 0)
    /\ [][(ret'.op = "minimax" /\ (~Open(grid) \/ ret'.depth = 0))
             => transposition_table' = transposition_table]_vars

\* A board with four in a row for both players has been scored as a win of
\* the bot, with depth left.
TerminalScoringWitness ==
    /\ ret.op = "minimax"
    /\ HasLine(grid, player_number)
    /\ HasLine(grid, opponent_number)
    /\ ret.depth > 0
    /\ ret.value = 1000 + ret.depth

\* C24: on the empty board a bot of search depth 6 (difficulty 4, the
\* default) returns column 3.
OpeningCenter ==
    (Returned /\ grid = EmptyGrid /\ search_depth = 6) => ret.move = 3

\* The default bot has searched the empty board to depth 6 and answered.
OpeningCenterWitness ==
    /\ Returned
    /\ grid = EmptyGrid
    /\ player_number = PLAYER_2
    /\ search_depth = DefaultDifficulty + 2
    /\ ret.path = "search"
    /\ ret.steps > cols

\* A grid wider than the board whose cells hold their own coordinates: the
\* window read from it is the list of the cells _get_window_values reads.
CoordGrid ==
    [row \in (0 - 3)..(rows + 2) |-> [col \in (0 - 3)..(cols + 2) |-> <<row, col>>]]

\* The four catalogs of a Bot with the direction each is read in.
Catalogs ==
    {<<"horizontal", horizontal_windows>>, <<"vertical", vertical_windows>>,
     <<"diagonal_down", diagonal_down_windows>>,
     <<"diagonal_up", diagonal_up_windows>>}

\* The windows of the catalogs, each as its direction and its anchor.
CatalogWindows ==
    UNION {{<<c[1], c[2][i]>> : i \in DOMAIN c[2]} : c \in Catalogs}

\* The set of the four cells of catalog window w.
CatalogCells(w) ==
    {get_window_values(CoordGrid, w[2][1], w[2][2], w[1])[k] : k \in 1..4}

\* The set of the four cells of the run of four that starts at w[1] and
\* goes in direction w[2].
LineCells(w) == {<<w[1][1] + k * w[2][1], w[1][2] + k * w[2][2]>> : k \in 0..3}

\* C31: a Bot holds 24 horizontal, 21 vertical, 12 down-right and 12
\* up-right window anchors, 69 in all and none twice in its catalog; every
\* cell of every window is a cell of the 6x7 grid; the 69 windows are the 69
\* runs of four cells along a row, a column or a diagonal of the board, so
\* check_win(player) answers true exactly when some window of the catalog
\* holds four pieces of player.
WindowCatalog ==
    ret.op = "check_win"
        => /\ Len(horizontal_windows) = 24
           /\ Len(vertical_windows) = 21
           /\ Len(diagonal_down_windows) = 12
           /\ Len(diagonal_up_windows) = 12
           /\ \A c \in Catalogs :
                 Cardinality({c[2][i] : i \in DOMAIN c[2]}) = Len(c[2])
           /\ Cardinality(CatalogWindows) = 69
           /\ \A w \in CatalogWindows : CatalogCells(w) \subseteq Cells
           /\ {CatalogCells(w) : w \in CatalogWindows}
                 = {LineCells(w) : w \in BoardWindows}
           /\ Cardinality({CatalogCells(w) : w \in CatalogWindows}) = 69
           /\ ret.value
                 <=> \E w \in CatalogWindows :
                        \A k \in 1..4 :
                            get_window_values(grid, w[2][1], w[2][2], w[1])[k]
                                = ret.player

\* check_win has answered true for a player whose only line is a horizontal
\* one that ends in the last column.
WindowCatalogWitness ==
    /\ ret.op = "check_win"
    /\ ret.value
    /\ \E row \in 0..(rows - 1) :
          \A k \in 1..4 :
              get_window_values(grid, row, cols - 4, "horizontal")[k] = ret.player
    /\ \A w \in CatalogWindows :
          (\A k \in 1..4 :
              get_window_values(grid, w[2][1], w[2][2], w[1])[k] = ret.player)
             => w[1] = "horizontal" /\ w[2][2] = cols - 4

\* The columns the mover can drop in on board g.
OpenColumns(g) == {c \in 0..(cols - 1) : g[0][c] = EMPTY}

\* The evaluator's score, for the bot, of each board one drop of mover away
\* from g.
OnePlyScores(g, mover) ==
    [c \in OpenColumns(g) |->
        evaluate_position(drop_piece(g, c, mover).grid, player_number,
                          opponent_number)] @@ << >>

\* Column a is to be visited before column b: it looks better for the mover
\* (a higher score when the bot moves, a lower one when the opponent does),
\* or it looks the same and has the smaller index.
VisitedBefore(score, a, b, is_maximizing) ==
    \/ is_maximizing /\ score[a] > score[b]
    \/ ~is_maximizing /\ score[a] < score[b]
    \/ score[a] = score[b] /\ a < b

\* The place of the call e in the visiting order of its caller's board.
PlaceOf(e, score) ==
    1 + Cardinality({c \in DOMAIN score :
                        VisitedBefore(score, c, e.col, e.is_maximizing)})

MoverOf(e) == IF e.is_maximizing THEN player_number ELSE opponent_number

\* C32: get_move calls _minimax on its columns in descending one-ply score
\* of the board after the bot's piece; a maximizing node visits its children
\* in descending one-ply score, a minimizing node in ascending one-ply score;
\* columns of equal score are visited in ascending index.  So the call a
\* node makes in the nth iteration of its loop is for the nth column of that
\* order, and a call that follows a call of the same node is its next one.
MoveOrdering ==
    Returned
        => /\ \A j \in DOMAIN ret.order :
                 /\ ret.order[j].col \in OpenColumns(ret.order[j].board)
                 /\ ret.order[j].nth
                       = PlaceOf(ret.order[j],
                                 OnePlyScores(ret.order[j].board, MoverOf(ret.order[j])))
           /\ \A j \in 1..(Len(ret.order) - 1) :
                 /\ ret.order[j + 1].caller = ret.order[j].caller
                       => /\ ret.order[j + 1].board = ret.order[j].board
                          /\ ret.order[j + 1].nth = ret.order[j].nth + 1
                 /\ ret.order[j + 1].caller = ret.order[j].caller - 1
                       => ret.order[j + 1].nth = 1
           /\ ret.order # << >>
                 => /\ ret.order[1].board = grid
                    /\ ret.order[1].is_maximizing
                    /\ ret.order[1].nth = 1

\* A search in which a minimizing node has visited two columns of equal
\* one-ply score one after the other, and a maximizing node below the root
\* has visited two columns.
MoveOrderingWitness ==
    /\ Returned
    /\ ret.path = "search"
    /\ \E j \in 1..(Len(ret.order) - 1) :
          /\ ~ret.order[j].is_maximizing
          /\ ret.order[j + 1].caller = ret.order[j].caller
          /\ OnePlyScores(ret.order[j].board, opponent_number)[ret.order[j].col]
                = OnePlyScores(ret.order[j].board, opponent_number)[ret.order[j + 1].col]
    /\ \E j \in 1..(Len(ret.order) - 1) :
          /\ ret.order[j].is_maximizing
          /\ ret.order[j].caller < search_depth
          /\ ret.order[j + 1].caller = ret.order[j].caller
          /\ OnePlyScores(ret.order[j].board, player_number)[ret.order[j].col]
                > OnePlyScores(ret.order[j].board, player_number)[ret.order[j + 1].col]

\* C33: on every board reached by drops, drop_piece(c, player) succeeds
\* exactly when is_valid_move(c) is true before the call; so no simulated
\* drop of get_move or _minimax for a column of get_valid_moves() fails, and
\* a search calls _minimax for every column with room of the caller's board.
DropIffValid ==
    /\ [](\A c \in QueryColumns, p \in Players :
             drop_piece(grid, c, p).success <=> is_valid_move(grid, c))
    /\ [][ret'.op = "drop_piece"
             => (ret'.success <=> is_valid_move(grid, ret'.col))]_vars
    /\ [](Returned
             => /\ ret.failed = 0
                /\ ret.path = "search"
                      => {ret.order[j].col :
                             j \in {k \in DOMAIN ret.order :
                                        ret.order[k].caller = search_depth}}
                            = {c \in 0..(cols - 1) : is_valid_move(grid, c)})

\* A search of more than one level has answered on a board with a full
\* column and a column with room, after the caller's piece was accepted.
DropIffValidWitness ==
    /\ Returned
    /\ ret.path = "search"
    /\ drops = 1
    /\ ret.steps > cols
    /\ \E c \in 0..(cols - 1) : grid[0][c] # EMPTY
    /\ \E c \in 0..(cols - 1) : grid[0][c] = EMPTY

\* C34: in every state of a game, game_over is true exactly when a player
\* has four in a row or the board is full; winner is a player exactly when a
\* player has four in a row, and is then that player; and the two players
\* never both have four in a row.
TerminalState ==
    /\ game_over <=> \/ \E p \in Players : HasLine(grid, p)
                     \/ ~HasEmptyCell(grid)
    /\ winner # None <=> \E p \in Players : HasLine(grid, p)
    /\ \A p \in Players : HasLine(grid, p) => winner = p
    /\ ~(HasLine(grid, PLAYER_1) /\ HasLine(grid, PLAYER_2))

\* make_move has ended a game by a line of PLAYER_2 on a board with room,
\* and was then called again.
TerminalStateWitness ==
    /\ game_over
    /\ winner = PLAYER_2
    /\ HasLine(grid, PLAYER_2)
    /\ HasEmptyCell(grid)
    /\ ret.op = "make_move"
    /\ ~ret.success

\* The number of pieces on board g.
PieceCount(g) ==
    Cardinality({cell \in Cells : g[cell[1]][cell[2]] # EMPTY})

\* C35: within one get_move call, every table entry _minimax finds for its
\* board was stored with the depth the node is called with and by a node
\* with the same is_maximizing flag; both are fixed by the number of pieces
\* on the board: a node whose board has k more pieces than the board
\* get_move was called with has depth search_depth - k and maximizes exactly
\* when k is even (get_move itself counting as the node with k = 0).
LookupSameNode ==
    Returned
        => /\ \A h \in ret.hits :
                 /\ h.stored_depth = h.depth
                 /\ h.stored_by = h.is_maximizing
           /\ \A j \in DOMAIN ret.order :
                 /\ ret.order[j].caller
                       = search_depth
                         - (PieceCount(ret.order[j].board) - PieceCount(grid))
                 /\ ret.order[j].is_maximizing
                       <=> (PieceCount(ret.order[j].board) - PieceCount(grid)) % 2 = 0

\* A search in which a maximizing node and a minimizing node each found an
\* entry for their board.
LookupSameNodeWitness ==
    /\ Returned
    /\ ret.path = "search"
    /\ \E h \in ret.hits : h.is_maximizing
    /\ \E h \in ret.hits : ~h.is_maximizing

\* C36: in play_game's loop every bot turn is taken on a board with a valid
\* column, get_move does not return -1 and make_move accepts its column, so
\* the turn places one piece of the bot and nothing else; the number of
\* accepted moves never passes rows*cols, the game is over when it reaches
\* rows*cols, and the loop ends: the game is over, or the player has quit.
PlayLoopProgress ==
    /\ [][ret'.op = "bot_turn"
             => /\ get_valid_moves(grid) # << >>
                /\ ret'.legal >= 1
                /\ ret'.col # NoMove
                /\ is_valid_move(grid, ret'.col)
                /\ ret'.success
                /\ Pieces(grid', PLAYER_2) = Pieces(grid, PLAYER_2) + 1
                /\ Pieces(grid', PLAYER_1) = Pieces(grid, PLAYER_1)
                /\ drops' = drops + 1]_vars
    /\ [](/\ drops = Pieces(grid, PLAYER_1) + Pieces(grid, PLAYER_2)
          /\ drops <= rows * cols
          /\ drops = rows * cols => game_over)
    /\ <>(game_over \/ ret.op = "quit")

\* The bot's search has answered on a board with a full column and its move
\* has filled the board: the game has ended in a draw after rows*cols moves.
PlayLoopWitness ==
    /\ ret.op = "bot_turn"
    /\ ret.path = "search"
    /\ drops = rows * cols
    /\ game_over
    /\ winner = None

====
